---- MODULE Spec2Model ----
(***************************************************************************)
(* Verification model of the stream-client library: the connection pool    *)
(* (base_connection_pool with its watcher and the greedy / conservative    *)
(* refill strategies), the timed socket layer (timed_base, base_socket,    *)
(* stream_socket) and the TLS send / receive loops.                        *)
(*                                                                         *)
(* Three specifications share the variables of the module:                 *)
(*   Spec      the connection pool, its callers, watcher and refill workers *)
(*   SockSpec  one stream / datagram session: timer, send loop, close       *)
(*   TlsSpec   TLS send / receive over write_some / read_some, and the      *)
(*             duration -> deadline overloads                               *)
(***************************************************************************)
EXTENDS Integers, Sequences, FiniteSets, TLC

(***************************************************************************)
(* Bounds of the model                                                     *)
(***************************************************************************)
\* width of the clock representation (the source uses a 64 bit tick count)
TimeBits == 16
\* the model clock stops at MaxTime milliseconds
MaxTime == 50
\* largest pool size passed to the pool constructor
MaxPoolSize == 1
\* number of connections the peer keeps open at the same time
MaxSessions == 3
\* longest list of endpoints the resolver returns
MaxEndpoints == 2
\* the count of pending refresh requests stops at MaxRequests
MaxRequests == 2
\* largest vacant_places a strategy is called with on its own
MaxVacant == 4
\* consecutive failed refill calls followed
MaxFails == 3
\* width of std::size_t (the source has 64 bits)
SizeBits == 16
\* messages followed through the logger
MaxLog == 2

(***************************************************************************)
(* Clock arithmetic (std::chrono on a signed integer representation)       *)
(***************************************************************************)
Pow2(n) == 2 ^ n
kTimePointMax == Pow2(TimeBits - 1) - 1
kTimePointMin == 0 - Pow2(TimeBits - 1)
\* timed_base::kInfiniteDuration = time_duration_type::max()
kInfiniteDuration == kTimePointMax

\* two's complement wrap of a sum into the representable range
Wrap(x) == ((x + Pow2(TimeBits - 1)) % Pow2(TimeBits)) - Pow2(TimeBits - 1)

\* clock_type::now() + timeout: the outcomes of the signed addition.  A sum
\* outside the representable range is undefined behaviour: the build either
\* wraps it or carries on as if it had not overflowed (largest time point).
AddDuration(t, d) ==
    IF t + d <= kTimePointMax /\ t + d >= kTimePointMin
    THEN {t + d}
    ELSE {Wrap(t + d), kTimePointMax}

(***************************************************************************)
(* Connection pool: constants and helpers                                  *)
(***************************************************************************)
Callers == {"c1", "c2"}
Strategies == {"greedy", "conservative"}

\* conservative_strategy constants
kMaxBackoffMs == 10000
kDefaultDelayMs == 50
kDefaultDelayMul == 3
\* values of double(r_generator_()) / r_generator_.max(), as <<num, den>>
RandVals == {<<0, 1>>, <<1, 1>>}

\* std::this_thread::sleep_for(50ms) at the end of a watcher pass
kWatchSleepMs == 50
\* the model clock advances in steps of the watcher's sleep period
TickMs == kWatchSleepMs

\* the empty unique_ptr
nullptr == 0

VARIABLES
    now,               \* clock_type::now(), in milliseconds
    pool_max_size_,    \* base_connection_pool::pool_max_size_
    idle_timeout_,     \* base_connection_pool::idle_timeout_
    strategy,          \* the Strategy template argument of the pool
    sesson_pool_,      \* list of [ts, sid]: (time_point, unique_ptr<stream>)
    pool_mutex_,       \* owner of the timed mutex: "none", a caller, "watcher", "adder"
    waiting,           \* callers blocked inside pool_cv_.wait_until
    cop,               \* per caller: the pool call it is running
    cpc,               \* per caller: position inside that call
    held,              \* per caller: the session its unique_ptr owns (nullptr = 0)
    ec,                \* per caller: the error_code object it passes by reference
    connected,         \* per caller: value its last is_connected returned
    deadline,          \* per caller: deadline argument / lock deadline of the call
    tmo,               \* per caller: cv_status of the last condition wait
    closed,            \* sessions whose underlying handle is closed
    wpc,               \* watcher position: "lock", "evict", "refill", "join", "sleep"
    wuntil,            \* end of the watcher's sleep_for
    vacant_places,     \* local of watch_pool_routine
    wConnecting,       \* spawned adders inside connector.new_session()
    wReady,            \* sessions of spawned adders blocked on pool_mutex_
    adderSid,          \* session of the adder that owns pool_mutex_
    inl,               \* add_session() run by the refill caller itself
    inlSid,            \* its session
    is_added,          \* conservative refill: std::atomic_bool is_added
    current_delay_ms_, \* conservative_strategy::current_delay_ms_
    wait_until_,       \* conservative_strategy::wait_until_
    watch_pool_,       \* base_connection_pool::watch_pool_ (std::atomic_bool)
    dpc,               \* ~base_connection_pool: "none", "join", "done"
    wchecked,          \* the watcher had loaded watch_pool_ for its pass when it was cleared
    late_pass,         \* passes the watcher has begun since watch_pool_ was cleared
    \* ---- one stream / datagram session (SockSpec) ----
    s_open,            \* next_layer().is_open()
    expires_at_,       \* timer_->expires_at()
    deadline_fired_,   \* timed_base::deadline_fired_
    timerQueued,       \* check_deadline is queued in the io_service (wait cancelled)
    spc,               \* position of the running socket call
    s_op,              \* the running socket call
    s_ec,              \* its error_code
    transfered_bytes,  \* its local transfered_bytes
    toSend,            \* bytes of the buffer the call was given
    setup_expiration,  \* local of send / receive
    handlerExp,        \* the pending completion handler owns an armed expiration
    opDeadline,        \* expiration the call was started with
    s_ret,             \* error_code of the last returned socket call
    closeRet,          \* error_code of the last returned close()
    actorRan,          \* deadline_actor has run on the session
    pooled,            \* return_session has put the session into the pool
    s_overload,        \* overload of the call: "ec" (error_code&) or "throwing"
    s_timeout,         \* duration the call was given (-1: a time point)
    thrown,            \* the last call left by an exception
    \* ---- TLS send / receive (TlsSpec) ----
    tpc,               \* position of the running TLS call
    t_op,              \* "send" or "receive"
    bufSize,           \* boost::asio::buffer_size(buffers)
    t_transfered,      \* local transfered_bytes of ssl send / receive
    wire,              \* send: buffer offsets written to the stream, in order
    rbuf,              \* receive: stream offset stored at each buffer offset
    rpos,              \* receive: bytes consumed from the stream
    t_ec,              \* error_code of the TLS call
    t_deadline,        \* deadline handed to write_some / read_some
    t_timeout,         \* duration the call was started with (-1: a time point)
    t_open,            \* is_open() of the TLS session's lowest layer
    io_timeouted_,     \* base_socket::io_timeouted_
    io_operation_timeout_, \* base_socket::io_operation_timeout_
    orig_io_timeout_mode,  \* the local of handshake / write_some / read_some
    \* ---- connector (ConnSpec) ----
    endpoints_,        \* base_connector::endpoints_, the endpoint cache
    resolve_error_,    \* base_connector::resolve_error_
    resolve_needed_,   \* base_connector::resolve_needed_
    resolve_done_,     \* base_connector::resolve_done_
    rpc,               \* position of the refresh worker
    resolved,          \* the resolver's answer handed to update_endpoints
    new_endpoints,     \* update_endpoints' local list
    published,         \* the list update_endpoints published last
    refresh_requests,  \* refresh requests the worker has not served yet (saturating)
    npc,               \* position of each new_session call
    n_overload,        \* how the call reports: "ec" or "throwing" ("none": no call yet)
    n_until,           \* the time point the caller allowed the call to take
    n_deadline,        \* deadline the call works with
    n_ec,              \* error_code of the call
    n_session,         \* session returned (nullptr: none)
    n_open,            \* is_open() of the returned session
    n_list,            \* the copy get_endpoints() returned
    n_target,          \* endpoint picked for the connection attempt
    n_thrown,          \* the call left by an exception
    \* ---- a refill strategy called on its own (RefillSpec) ----
    fpc,               \* position of the refill call
    first_delay_ms,    \* constructor argument kept in initial_delay_ms_
    delay_multiplier,  \* constructor argument kept in delay_multiplier_
    attempts,          \* new_session() calls made by the current refill call
    succeeded,         \* those that returned a session
    pending,           \* sessions of spawned adders not yet handed to append_func
    appended,          \* append_func calls made by the current refill call
    spawned,           \* adder threads the current refill call started
    failed_calls,      \* consecutive refill calls that ran and added nothing
    call_delay,        \* current_delay_ms_ when the current refill call began
    refill_ret,        \* value the last refill call returned
    \* ---- one HTTP session and its peer (HttpSpec) ----
    hpc,               \* position of the perform call
    h_deadline,        \* deadline given to perform
    h_ec,              \* ec of the perform call
    h_result,          \* "none" or "response"
    h_sent,            \* request bytes the serializer has consumed
    h_wire,            \* request bytes written to the stream, in order
    h_parsed,          \* response bytes the parser has consumed
    h_reads,           \* read_some calls made by the perform call
    h_used,            \* deadlines handed to write_some / read_some
    h_send_ec,         \* ec send_request returned with
    h_recv_ec,         \* ec recv_response returned with
    h_open,            \* the session's handle is open
    h_fired,           \* the timer fired during the pending stream call
    p_state,           \* peer: "open", "closed" or "reset"
    p_avail,           \* response bytes sent by the peer and not yet read
    p_delivered,       \* response bytes sent by the peer
    p_framed,          \* the response carries Content-Length
    p_bad,             \* position of the first malformed response byte, 0 = none
    \* ---- the library logger (LogSpec) ----
    level_,            \* base_logger::level_ of the current instance
    logger_kind,       \* "cout" (the default instance) or "func"
    log_out,           \* levels of the messages handed to logger->message
    last_level,        \* level of the last STREAM_LOG_* call
    last_gate,         \* configured level at that call
    last_emitted,      \* that call reached logger->message
    \* ---- a session that was move-constructed (MoveSpec) ----
    handler_this,      \* the object the pending wait handler captured: "session", "moved_from"
    m_outcome,         \* what running that handler on the moved-from object did
    \* ---- the HTTP receive arena (AllocSpec) ----
    a_state,           \* the static_pool block: "none", "allocated", "freed"
    a_size,            \* static_pool::size_
    a_refs,            \* static_pool::refs_
    a_count,           \* static_pool::count_
    a_p,               \* static_pool::p_, as an offset into the block
    a_live,            \* static_allocator objects whose pool_ points to the block
    a_bad_alloc        \* the last allocate threw std::bad_alloc

poolVars == <<pool_max_size_, idle_timeout_, strategy, sesson_pool_, pool_mutex_,
              waiting, cop, cpc, held, ec, connected, deadline, tmo, closed, wpc, wuntil, vacant_places, wConnecting, wReady,
              adderSid, inl, inlSid, is_added, current_delay_ms_, wait_until_,
              watch_pool_, dpc, wchecked, late_pass>>

sockVars == <<s_open, expires_at_, deadline_fired_, timerQueued, spc, s_op, s_ec,
              transfered_bytes, toSend, setup_expiration, handlerExp, opDeadline, s_ret,
              closeRet, actorRan, pooled, s_overload, s_timeout, thrown>>

tlsVars == <<tpc, t_op, bufSize, t_transfered, wire, rbuf, rpos, t_ec, t_deadline,
             t_timeout, t_open, io_timeouted_, io_operation_timeout_, orig_io_timeout_mode>>

workerVars == <<endpoints_, resolve_error_, resolve_needed_, resolve_done_, rpc, resolved,
                new_endpoints, published, refresh_requests>>
clientVars == <<npc, n_overload, n_until, n_deadline, n_ec, n_session, n_open,
                n_list, n_target, n_thrown>>
connVars == <<workerVars, clientVars>>
stratVars == <<fpc, first_delay_ms, delay_multiplier, attempts, succeeded, pending, appended,
               spawned, failed_calls, call_delay, refill_ret>>
peerVars == <<p_state, p_avail, p_delivered, p_framed, p_bad>>
httpVars == <<hpc, h_deadline, h_ec, h_result, h_sent, h_wire, h_parsed, h_reads, h_used, h_send_ec,
              h_recv_ec, h_open, h_fired, peerVars>>
logVars == <<level_, logger_kind, log_out, last_level, last_gate, last_emitted>>
moveVars == <<handler_this, m_outcome>>
allocVars == <<a_state, a_size, a_refs, a_count, a_p, a_live, a_bad_alloc>>
moreVars == <<moveVars, allocVars>>
extVars == <<stratVars, httpVars, logVars, moreVars>>
nonConnVars == <<now, poolVars, sockVars, tlsVars, extVars>>
vars == <<now, poolVars, sockVars, tlsVars, connVars, extVars>>

callerVars == <<cop, cpc, held, ec, connected, deadline, tmo>>
\* what a refill call made on its own leaves alone
stratFrame == <<now, pool_max_size_, idle_timeout_, strategy, watch_pool_, dpc, wchecked,
                late_pass, sesson_pool_, pool_mutex_, waiting,
                callerVars, closed, wpc, wuntil, wReady, adderSid, inlSid, sockVars, tlsVars,
                connVars, httpVars, logVars, moreVars>>
watcherVars == <<wpc, wuntil, vacant_places>>
refillVars == <<wConnecting, wReady, adderSid, inl, inlSid, is_added>>
backoffVars == <<current_delay_ms_, wait_until_>>
configVars == <<pool_max_size_, idle_timeout_, strategy>>
lifeVars == <<watch_pool_, dpc, wchecked, late_pass>>

Min(a, b) == IF a < b THEN a ELSE b

\* variant of front: the newest entry is taken
back(q) == q[Len(q)]

\* variant of pop_front: the entry stays in the list
pop_front_kept(q) == q

\* std::list operations used on sesson_pool_
front(q) == Head(q)
pop_front(q) == Tail(q)
emplace_back(q, e) == Append(q, e)

\* variant of SessionRejected: only the null test is made
SessionRejectedNullOnly(s, closedHandles) == s = nullptr

\* return_session: !session || !session->next_layer().is_open()
SessionRejected(s, closedHandles) == s = nullptr \/ s \in closedHandles

\* variant of EvictIdle: only entries strictly older than the timeout go
EvictIdleStrictlyOlder(q, t, idle) == SelectSeq(q, LAMBDA e : ~(t - e.ts > idle))

\* watch_pool_routine: the erase loop over sesson_pool_
EvictIdle(q, t, idle) == SelectSeq(q, LAMBDA e : ~(t - e.ts >= idle))

\* variant of VacantPlaces: the current size of the pool is not subtracted
VacantPlacesIgnoringSize(maxSize, currentSize) == maxSize

\* watch_pool_routine: vacant_places
VacantPlaces(maxSize, currentSize) ==
    IF maxSize > currentSize THEN maxSize - currentSize ELSE 0

\* variant of GreedyAdders: no adder thread is spawned
GreedyAddersNone(vacant) == 0

\* greedy_strategy::refill: number of adders spawned
GreedyAdders(vacant) == vacant

\* conservative_strategy::refill: parallel = (vacant_places + 2) / 3 - 1 in
\* std::size_t arithmetic, which wraps below zero,
\* spawned only while current_delay_ms_ is zero
ParallelAdders(vacant) == (((vacant + 2) \div 3) - 1) % Pow2(SizeBits)
ConservativeParallel(vacant, delay) ==
    LET parallel == ParallelAdders(vacant)
    IN  IF delay = 0 /\ parallel > 0 THEN parallel ELSE 0

\* conservative_strategy::refill: the back-off after a call that added nothing
NextDelayUnclamped(delay, initial, mul, rnd) ==
    ((IF delay = 0 THEN initial ELSE delay * mul) * rnd[1]) \div rnd[2]
NextDelay(delay, initial, mul, rnd) ==
    LET grown == IF delay = 0 THEN initial ELSE delay * mul
        scaled == (grown * rnd[1]) \div rnd[2]
    IN  Min(kMaxBackoffMs, scaled)

\* value returned by greedy_strategy::refill
GreedyResult(vacant) == vacant > 0

\* value returned by conservative_strategy::refill after the joins
ConservativeResultAlways(added) == TRUE
ConservativeResult(added) == added

\* watch_pool_routine: pool_lk.unlock() after the eviction loop
PoolLkKept(owner) == owner
PoolLkUnlock(owner) == "none"

\* watch_pool_routine: if (need_more) continue; otherwise the 50 ms sleep
SleepsAfterPass(need_more) == ~need_more

\* return_session waits try_lock_for(std::chrono::milliseconds(1))
kReturnLockMs == 1

\* pool_cv_.notify_all(): every waiter is woken
NotifyNobody(w) == {{}}
NotifyAll(w) == {w}
\* pool_cv_.notify_one(): one waiter, if there is any
NotifyOne(w) == IF w = {} THEN {{}} ELSE {{c} : c \in w}

(***************************************************************************)
(* Connection pool: initial state                                          *)
(***************************************************************************)
IdleTimeouts == {TickMs, kInfiniteDuration}

PoolInit ==
    /\ pool_max_size_ \in 1..MaxPoolSize
    /\ idle_timeout_ \in IdleTimeouts
    /\ strategy \in Strategies
    /\ sesson_pool_ = <<>>
    /\ pool_mutex_ = "none"
    /\ waiting = {}
    /\ cop = [c \in Callers |-> "none"]
    /\ cpc = [c \in Callers |-> "idle"]
    /\ held = [c \in Callers |-> nullptr]
    /\ ec = [c \in Callers |-> "success"]
    /\ connected = [c \in Callers |-> FALSE]
    /\ deadline = [c \in Callers |-> 0]
    /\ tmo = [c \in Callers |-> FALSE]
    /\ closed = {}
    /\ wpc = "lock"
    /\ wuntil = 0
    /\ vacant_places = 0
    /\ wConnecting = 0
    /\ wReady = {}
    /\ adderSid = nullptr
    /\ inl = "none"
    /\ inlSid = nullptr
    /\ is_added = FALSE
    /\ current_delay_ms_ = 0
    /\ wait_until_ = 0
    /\ watch_pool_ = TRUE
    /\ dpc = "none"
    /\ wchecked = FALSE
    /\ late_pass = 0

PoolIdle ==
    /\ pool_max_size_ = 1
    /\ idle_timeout_ = kInfiniteDuration
    /\ strategy = "greedy"
    /\ sesson_pool_ = <<>>
    /\ pool_mutex_ = "none"
    /\ waiting = {}
    /\ cop = [c \in Callers |-> "none"]
    /\ cpc = [c \in Callers |-> "idle"]
    /\ held = [c \in Callers |-> nullptr]
    /\ ec = [c \in Callers |-> "success"]
    /\ connected = [c \in Callers |-> FALSE]
    /\ deadline = [c \in Callers |-> 0]
    /\ tmo = [c \in Callers |-> FALSE]
    /\ closed = {}
    /\ wpc = "stopped"
    /\ wuntil = 0
    /\ vacant_places = 0
    /\ wConnecting = 0
    /\ wReady = {}
    /\ adderSid = nullptr
    /\ inl = "none"
    /\ inlSid = nullptr
    /\ is_added = FALSE
    /\ current_delay_ms_ = 0
    /\ wait_until_ = 0
    /\ watch_pool_ = TRUE
    /\ dpc = "none"
    /\ wchecked = FALSE
    /\ late_pass = 0

(***************************************************************************)
(* Connection pool: get_session / try_get_session / return_session         *)
(***************************************************************************)
\* deadlines a caller passes: the end of the modelled time span (ahead of the
\* clock, or reached once the clock has advanced) and never
GetDeadlines == {MaxTime, kTimePointMax}

\* error_code a get / try call reports when the mutex was not locked in time
LockTimeoutError == "timed_out"
\* variant of EmptyError: the error_code is left as it was passed
EmptyErrorUnset == "success"
\* error_code a get / try call reports when the pool is (still) empty
EmptyError == "not_found"

\* the call of caller c returns: its locals go out of scope
Returned(c) ==
    /\ cpc' = [cpc EXCEPT ![c] = "idle"]
    /\ deadline' = [deadline EXCEPT ![c] = 0]
    /\ tmo' = [tmo EXCEPT ![c] = FALSE]

\* session = std::move(sesson_pool_.front().second); sesson_pool_.pop_front()
Deliver(c) ==
    /\ held' = [held EXCEPT ![c] = front(sesson_pool_).sid]
    /\ sesson_pool_' = pop_front(sesson_pool_)
    /\ Returned(c)
    /\ UNCHANGED waiting

\* the pool is empty and the call gives up: ec is set, nullptr is returned
GiveUpEmpty(c) ==
    /\ ec' = [ec EXCEPT ![c] = EmptyError]
    /\ held' = [held EXCEPT ![c] = nullptr]
    /\ Returned(c)
    /\ UNCHANGED <<sesson_pool_, waiting>>

\* pool_cv_.wait_until(pool_lk, deadline, pred) blocks: the mutex is released
WaitOnCv(c, dl) ==
    /\ waiting' = waiting \cup {c}
    /\ cpc' = [cpc EXCEPT ![c] = "wait"]
    /\ deadline' = [deadline EXCEPT ![c] = dl]
    /\ UNCHANGED <<sesson_pool_, held, tmo>>

\* is_connected finds the pool non-empty, or gives up: nothing is removed
Peek(c) ==
    /\ Returned(c)
    /\ UNCHANGED <<sesson_pool_, waiting, held>>

\* the caller enters get_session(ec, deadline), try_get_session(ec, deadline)
\* or is_connected(ec, deadline)
\* with an empty unique_ptr and an error_code holding e0 (the call does not
\* write ec on entry), and makes the first attempt of try_lock_until.  With the mutex taken, the critical
\* section runs up to its unlock (or its wait) before another thread can take
\* the mutex.
GetCall(c, op, dl, e0) ==
    /\ cpc[c] = "idle"
    /\ held[c] = nullptr
    /\ cop' = [cop EXCEPT ![c] = op]
    /\ connected' = [connected EXCEPT ![c] =
                        op = "isc" /\ pool_mutex_ = "none" /\ sesson_pool_ # <<>>]
    /\ IF pool_mutex_ # "none"
       THEN /\ cpc' = [cpc EXCEPT ![c] = "lock"]
            /\ deadline' = [deadline EXCEPT ![c] = dl]
            /\ ec' = [ec EXCEPT ![c] = e0]
            /\ UNCHANGED <<sesson_pool_, waiting, held, tmo>>
       ELSE IF sesson_pool_ # <<>>
            THEN /\ IF op = "isc" THEN Peek(c) ELSE Deliver(c)
                 /\ ec' = [ec EXCEPT ![c] = e0]
            ELSE IF op = "try"
                 THEN GiveUpEmpty(c)
                 ELSE /\ WaitOnCv(c, dl)
                      /\ ec' = [ec EXCEPT ![c] = e0]
    /\ UNCHANGED <<now, configVars, lifeVars, pool_mutex_, closed, watcherVars, refillVars,
                   backoffVars, sockVars, tlsVars, connVars, extVars>>

\* the call is made with a default-constructed error_code
GetStart(c, op, dl) == GetCall(c, op, dl, "success")

\* the call is made with the error_code variable the caller's previous call
\* wrote, as the loop of the pool test does
GetStartReusing(c, op, dl) == GetCall(c, op, dl, ec[c])

\* the timed lock attempt gives up: the mutex is owned by another thread and
\* the deadline has passed
LockTimeout(c) ==
    /\ cpc[c] = "lock"
    /\ pool_mutex_ # "none"
    /\ now >= deadline[c]
    /\ Returned(c)
    /\ IF cop[c] = "ret"
       THEN \* return_session: the session stays with the caller's unique_ptr
            UNCHANGED <<ec, held>>
       ELSE /\ ec' = [ec EXCEPT ![c] = LockTimeoutError]
            /\ held' = [held EXCEPT ![c] = nullptr]
    /\ UNCHANGED <<now, configVars, lifeVars, sesson_pool_, pool_mutex_, waiting, cop, connected, closed,
                   watcherVars, refillVars, backoffVars, sockVars, tlsVars, connVars, extVars>>

\* variant of Locks: the attempt succeeds whoever owns the mutex
LocksWithoutOwning(c) == cpc[c] \in {"lock", "relock"}

\* a blocked caller takes pool_mutex_: try_lock_until / try_lock_for succeeds,
\* or the condition wait relocks
Locks(c) ==
    /\ cpc[c] \in {"lock", "relock"}
    /\ pool_mutex_ = "none"

\* get_session with the mutex owned: the body of
\* sesson_pool_.empty() && !pool_cv_.wait_until(pool_lk, deadline, pred)
GetLocked(c) ==
    /\ Locks(c)
    /\ cop[c] = "get"
    /\ IF sesson_pool_ # <<>>
       THEN Deliver(c) /\ UNCHANGED ec
       ELSE IF tmo[c]
            THEN \* the condition wait timed out: return pred()
                 GiveUpEmpty(c)
            ELSE WaitOnCv(c, deadline[c]) /\ UNCHANGED ec
    /\ UNCHANGED <<now, configVars, lifeVars, pool_mutex_, cop, connected, closed, watcherVars,
                   refillVars, backoffVars, sockVars, tlsVars, connVars, extVars>>

\* is_connected with the mutex owned: the body of
\* sesson_pool_.empty() && !pool_cv_.wait_until(pool_lk, deadline, pred)
IscLocked(c) ==
    /\ Locks(c)
    /\ cop[c] = "isc"
    /\ IF sesson_pool_ # <<>>
       THEN Peek(c) /\ connected' = [connected EXCEPT ![c] = TRUE]
       ELSE IF tmo[c]
            THEN \* the condition wait timed out: return false, ec is not set
                 Peek(c) /\ connected' = [connected EXCEPT ![c] = FALSE]
            ELSE WaitOnCv(c, deadline[c]) /\ UNCHANGED connected
    /\ UNCHANGED <<now, configVars, lifeVars, pool_mutex_, cop, ec, closed, watcherVars,
                   refillVars, backoffVars, sockVars, tlsVars, connVars, extVars>>

\* the condition wait ends at the deadline
CvTimeout(c) ==
    /\ cpc[c] = "wait"
    /\ c \in waiting
    /\ now >= deadline[c]
    /\ waiting' = waiting \ {c}
    /\ cpc' = [cpc EXCEPT ![c] = "relock"]
    /\ tmo' = [tmo EXCEPT ![c] = TRUE]
    /\ UNCHANGED <<now, configVars, lifeVars, sesson_pool_, pool_mutex_, cop, held, ec, connected, deadline,
                   closed, watcherVars, refillVars, backoffVars, sockVars, tlsVars, connVars, extVars>>

\* a spurious wake-up of the condition wait before the deadline
CvSpurious(c) ==
    /\ cpc[c] = "wait"
    /\ c \in waiting
    /\ now < deadline[c]
    /\ waiting' = waiting \ {c}
    /\ cpc' = [cpc EXCEPT ![c] = "relock"]
    /\ tmo' = [tmo EXCEPT ![c] = FALSE]
    /\ UNCHANGED <<now, configVars, lifeVars, sesson_pool_, pool_mutex_, cop, held, ec, connected, deadline,
                   closed, watcherVars, refillVars, backoffVars, sockVars, tlsVars, connVars, extVars>>

\* try_get_session with the mutex owned
TryLocked(c) ==
    /\ Locks(c)
    /\ cop[c] = "try"
    /\ IF sesson_pool_ # <<>> THEN Deliver(c) /\ UNCHANGED ec ELSE GiveUpEmpty(c)
    /\ UNCHANGED <<now, configVars, lifeVars, pool_mutex_, cop, connected, closed, watcherVars, refillVars,
                   backoffVars, sockVars, tlsVars, connVars, extVars>>

\* the callers woken by a notification leave the condition wait
Wake(pcs, woken) == [x \in Callers |-> IF x \in woken THEN "relock" ELSE pcs[x]]
\* cv_status of a woken caller: timeout once its deadline has passed
WakeStatus(st, woken) ==
    [x \in Callers |-> IF x \in woken THEN now >= deadline[x] ELSE st[x]]

\* return_session with the mutex owned: emplace_back, unlock, notify_all
PutBack(c) ==
    /\ sesson_pool_' = emplace_back(sesson_pool_, [ts |-> now, sid |-> held[c]])
    /\ held' = [held EXCEPT ![c] = nullptr]
    /\ \E woken \in NotifyAll(waiting) :
          /\ waiting' = waiting \ woken
          /\ cpc' = [Wake(cpc, woken) EXCEPT ![c] = "idle"]
          /\ tmo' = WakeStatus(tmo, woken)
    /\ deadline' = [deadline EXCEPT ![c] = 0]

\* the caller enters return_session(std::move(session)): the null / closed
\* test, then the first attempt of try_lock_for(1ms)
RetStart(c) ==
    /\ cpc[c] = "idle"
    /\ cop' = [cop EXCEPT ![c] = "ret"]
    /\ ec' = [ec EXCEPT ![c] = "success"]
    /\ connected' = [connected EXCEPT ![c] = FALSE]
    /\ IF SessionRejected(held[c], closed)
       THEN UNCHANGED <<sesson_pool_, waiting, held, cpc, deadline, tmo>>
       ELSE IF pool_mutex_ # "none"
            THEN /\ cpc' = [cpc EXCEPT ![c] = "lock"]
                 /\ deadline' = [deadline EXCEPT ![c] = now + kReturnLockMs]
                 /\ UNCHANGED <<sesson_pool_, waiting, held, tmo>>
            ELSE PutBack(c)
    /\ UNCHANGED <<now, configVars, lifeVars, pool_mutex_, closed, watcherVars, refillVars,
                   backoffVars, sockVars, tlsVars, connVars, extVars>>

\* return_session: the lock attempt of a blocked caller succeeds
RetLocked(c) ==
    /\ Locks(c)
    /\ cop[c] = "ret"
    /\ PutBack(c)
    /\ UNCHANGED <<now, configVars, lifeVars, pool_mutex_, cop, ec, connected, closed, watcherVars, refillVars,
                   backoffVars, sockVars, tlsVars, connVars, extVars>>

\* the holder closes the handle of the session it borrowed (close(), or a
\* failed or timed out operation on it)
CloseHeld(c) ==
    /\ cpc[c] = "idle"
    /\ held[c] # nullptr
    /\ held[c] \notin closed
    /\ closed' = closed \cup {held[c]}
    /\ cop' = [cop EXCEPT ![c] = "none"]
    /\ ec' = [ec EXCEPT ![c] = "success"]
    /\ connected' = [connected EXCEPT ![c] = FALSE]
    /\ UNCHANGED <<now, configVars, lifeVars, sesson_pool_, pool_mutex_, waiting, cpc, held,
                   deadline, tmo, watcherVars, refillVars, backoffVars, sockVars, tlsVars, connVars, extVars>>

\* the holder's unique_ptr goes out of scope: the session is destroyed
Discard(c) ==
    /\ cpc[c] = "idle"
    /\ held[c] # nullptr
    /\ held' = [held EXCEPT ![c] = nullptr]
    /\ closed' = closed \ {held[c]}
    /\ cop' = [cop EXCEPT ![c] = "none"]
    /\ ec' = [ec EXCEPT ![c] = "success"]
    /\ connected' = [connected EXCEPT ![c] = FALSE]
    /\ UNCHANGED <<now, configVars, lifeVars, sesson_pool_, pool_mutex_, waiting, cpc, deadline,
                   tmo, watcherVars, refillVars, backoffVars, sockVars, tlsVars, connVars, extVars>>

(***************************************************************************)
(* Connection pool: watch_pool_routine and the refill strategies            *)
(***************************************************************************)
\* conservative_strategy members set by its constructor (default arguments)
initial_delay_ms_ == kDefaultDelayMs
delay_multiplier_ == kDefaultDelayMul

\* variant of LoopRuns: the loop does not look at watch_pool_
LoopRunsAlways(flag, checked) == TRUE

\* while (watch_pool_.load(std::memory_order_acquire)): the pass runs when the
\* flag is set, or was still set when the watcher loaded it
LoopRuns(flag, checked) == flag \/ checked

\* watch_pool_routine: the loop condition holds and
\* pool_lk.try_lock_for(lock_timeout) succeeds.  A failed attempt continues
\* the loop and changes nothing.
WatchLock ==
    /\ wpc = "lock"
    /\ LoopRuns(watch_pool_, wchecked)
    /\ pool_mutex_ = "none"
    /\ pool_mutex_' = "watcher"
    /\ wpc' = "evict"
    /\ wchecked' = FALSE
    /\ late_pass' = IF watch_pool_ THEN late_pass ELSE late_pass + 1
    /\ UNCHANGED <<now, configVars, watch_pool_, dpc, sesson_pool_, waiting, callerVars, closed, wuntil, vacant_places, refillVars,
                   backoffVars, sockVars, tlsVars, connVars, extVars>>

\* watch_pool_routine: erase idle entries, unlock, compute vacant_places
WatchEvict ==
    /\ wpc = "evict"
    /\ pool_mutex_ = "watcher"
    /\ sesson_pool_' = EvictIdle(sesson_pool_, now, idle_timeout_)
    /\ pool_mutex_' = PoolLkUnlock(pool_mutex_)
    /\ vacant_places' = VacantPlaces(pool_max_size_, Len(sesson_pool_'))
    /\ IF vacant_places' > 0
       THEN wpc' = "refill" /\ UNCHANGED wuntil
       ELSE wpc' = "sleep" /\ wuntil' = now + kWatchSleepMs
    /\ UNCHANGED <<now, configVars, lifeVars, waiting, callerVars, closed, refillVars, backoffVars, sockVars, tlsVars, connVars, extVars>>

\* reconnection_.proceed(connector_, vacant_places, append): entry of
\* greedy_strategy::refill / conservative_strategy::refill up to the spawn
WatchRefill ==
    /\ wpc = "refill"
    /\ IF strategy = "greedy"
       THEN /\ wConnecting' = GreedyAdders(vacant_places)
            /\ wpc' = "join"
            /\ UNCHANGED <<inl, is_added, wuntil, vacant_places>>
       ELSE IF now < wait_until_
            THEN \* return false; the watcher goes to sleep
                 /\ wpc' = "sleep"
                 /\ wuntil' = now + kWatchSleepMs
                 /\ vacant_places' = 0
                 /\ UNCHANGED <<wConnecting, inl, is_added>>
            ELSE /\ is_added' = FALSE
                 /\ wConnecting' = ConservativeParallel(vacant_places, current_delay_ms_)
                 /\ inl' = "connecting"
                 /\ wpc' = "join"
                 /\ UNCHANGED <<wuntil, vacant_places>>
    /\ UNCHANGED <<now, configVars, lifeVars, sesson_pool_, pool_mutex_, waiting, callerVars, closed,
                   wReady, adderSid, inlSid, backoffVars, sockVars, tlsVars, connVars, extVars>>

\* sessions that exist: pooled, owned by a caller, or on their way into the pool
Live ==
    ({sesson_pool_[i].sid : i \in DOMAIN sesson_pool_} \cup {held[c] : c \in Callers}
        \cup wReady \cup {adderSid, inlSid}) \ {nullptr}
\* the peer accepts one more connection
CanConnect == Live # 1..MaxSessions
\* connector.new_session(): the session object the connector creates
NewSession == CHOOSE s \in (1..MaxSessions) \ Live : \A t \in (1..MaxSessions) \ Live : s <= t

\* add_session in a spawned thread: connector.new_session() returns a session
\* (the throwing overload never returns nullptr) or throws; the exception is
\* caught and the thread ends
AdderConnect(ok) ==
    /\ wConnecting > 0
    /\ wConnecting' = wConnecting - 1
    /\ IF ok
       THEN /\ CanConnect
            /\ wReady' = wReady \cup {NewSession}
       ELSE UNCHANGED wReady
    /\ UNCHANGED <<now, configVars, lifeVars, sesson_pool_, pool_mutex_, waiting, callerVars, closed,
                   watcherVars, adderSid, inl, inlSid,
                   is_added, backoffVars, sockVars, tlsVars, connVars, extVars>>

\* append_session: std::unique_lock<std::timed_mutex> pool_lk(pool_mutex_)
AdderLock(sid) ==
    /\ sid \in wReady
    /\ pool_mutex_ = "none"
    /\ pool_mutex_' = "adder"
    /\ adderSid' = sid
    /\ wReady' = wReady \ {sid}
    /\ UNCHANGED <<now, configVars, lifeVars, sesson_pool_, waiting, callerVars, closed, watcherVars, wConnecting, inl, inlSid,
                   is_added, backoffVars, sockVars, tlsVars, connVars, extVars>>

\* append_session: emplace_back, unlock, notify_one (then is_added = true in
\* the conservative strategy)
AppendSession(sid, owner) ==
    /\ pool_mutex_ = owner
    /\ sesson_pool_' = emplace_back(sesson_pool_, [ts |-> now, sid |-> sid])
    /\ pool_mutex_' = "none"
    /\ \E woken \in NotifyOne(waiting) :
          /\ waiting' = waiting \ woken
          /\ cpc' = Wake(cpc, woken)
          /\ tmo' = WakeStatus(tmo, woken)
    /\ is_added' = IF strategy = "conservative" THEN TRUE ELSE is_added
    /\ UNCHANGED <<now, configVars, lifeVars, cop, held, ec, connected, deadline, closed, watcherVars, wConnecting, wReady, backoffVars, sockVars, tlsVars, connVars, extVars>>

AdderAppend ==
    /\ adderSid # nullptr
    /\ AppendSession(adderSid, "adder")
    /\ adderSid' = nullptr
    /\ UNCHANGED <<inl, inlSid>>

\* conservative_strategy::refill: add_session() called in the calling thread
InlConnect(ok) ==
    /\ inl = "connecting"
    /\ IF ok
       THEN /\ CanConnect
            /\ inl' = "ready"
            /\ inlSid' = NewSession
       ELSE /\ inl' = "done"
            /\ UNCHANGED <<inlSid>>
    /\ UNCHANGED <<now, configVars, lifeVars, sesson_pool_, pool_mutex_, waiting, callerVars, closed,
                   watcherVars, wConnecting, wReady,
                   adderSid, is_added, backoffVars, sockVars, tlsVars, connVars, extVars>>

InlLock ==
    /\ inl = "ready"
    /\ pool_mutex_ = "none"
    /\ pool_mutex_' = "watcher"
    /\ inl' = "locked"
    /\ UNCHANGED <<now, configVars, lifeVars, sesson_pool_, waiting, callerVars, closed, watcherVars, wConnecting, wReady,
                   adderSid, inlSid, is_added, backoffVars, sockVars, tlsVars, connVars, extVars>>

InlAppend ==
    /\ inl = "locked"
    /\ AppendSession(inlSid, "watcher")
    /\ inl' = "done"
    /\ inlSid' = nullptr
    /\ UNCHANGED adderSid

\* refill after the joins: the value returned to watch_pool_routine, and the
\* watcher's continue / sleep
WatchJoin ==
    /\ wpc = "join"
    /\ wConnecting = 0
    /\ wReady = {}
    /\ adderSid = nullptr
    /\ inl \in {"none", "done"}
    /\ inl' = "none"
    /\ IF strategy = "greedy"
       THEN \* return vacant_places > 0
            /\ IF SleepsAfterPass(GreedyResult(vacant_places))
               THEN wpc' = "sleep" /\ wuntil' = now + kWatchSleepMs
               ELSE wpc' = "lock" /\ UNCHANGED wuntil
            /\ UNCHANGED backoffVars
       ELSE IF is_added
            THEN /\ current_delay_ms_' = 0
                 /\ IF SleepsAfterPass(ConservativeResult(TRUE))
                    THEN wpc' = "sleep" /\ wuntil' = now + kWatchSleepMs
                    ELSE wpc' = "lock" /\ UNCHANGED wuntil
                 /\ UNCHANGED wait_until_
            ELSE /\ \E rnd \in RandVals :
                       current_delay_ms_' = NextDelay(current_delay_ms_, initial_delay_ms_,
                                                      delay_multiplier_, rnd)
                 /\ wait_until_' = now + current_delay_ms_'
                 /\ wpc' = "sleep"
                 /\ wuntil' = now + kWatchSleepMs
    \* the locals of the pass go out of scope
    /\ vacant_places' = 0
    /\ is_added' = FALSE
    /\ UNCHANGED <<now, configVars, lifeVars, sesson_pool_, pool_mutex_, waiting, callerVars, closed,
                   wConnecting, wReady, adderSid, inlSid, sockVars, tlsVars, connVars, extVars>>

\* std::this_thread::sleep_for(std::chrono::milliseconds(50)) is over
WatchWake ==
    /\ wpc = "sleep"
    /\ now >= wuntil
    /\ wpc' = "lock"
    /\ wuntil' = 0
    /\ UNCHANGED <<now, configVars, lifeVars, sesson_pool_, pool_mutex_, waiting, callerVars, closed,
                   vacant_places,
                   refillVars, backoffVars, sockVars, tlsVars, connVars, extVars>>

\* watch_pool_routine: the loop condition fails and the thread ends
WatchExit ==
    /\ wpc = "lock"
    /\ ~LoopRuns(watch_pool_, wchecked)
    /\ wpc' = "exited"
    /\ UNCHANGED <<now, configVars, lifeVars, sesson_pool_, pool_mutex_, waiting, callerVars,
                   closed, wuntil, vacant_places, refillVars, backoffVars, sockVars, tlsVars,
                   connVars, extVars>>

\* the sleep ends after the last instant the clock of the model shows
WatchSleepElapses ==
    /\ wpc = "sleep"
    /\ now < wuntil
    /\ now + TickMs > MaxTime
    /\ wpc' = "lock"
    /\ wuntil' = 0
    /\ UNCHANGED <<now, configVars, lifeVars, sesson_pool_, pool_mutex_, waiting, callerVars,
                   closed, vacant_places, refillVars, backoffVars, sockVars, tlsVars, connVars,
                   extVars>>

\* ~base_connection_pool(): watch_pool_.store(false), made while no thread
\* is inside a call of the pool.  The watcher may by then have loaded the
\* flag for the pass it is about to begin.
DtorStart ==
    /\ dpc = "none"
    /\ \A c \in Callers : cpc[c] = "idle"
    /\ watch_pool_' = FALSE
    /\ dpc' = "join"
    /\ wchecked' \in (IF wpc = "lock" THEN BOOLEAN ELSE {FALSE})
    /\ UNCHANGED <<now, configVars, late_pass, sesson_pool_, pool_mutex_, waiting, callerVars,
                   closed, watcherVars, refillVars, backoffVars, sockVars, tlsVars, connVars,
                   extVars>>

\* ~base_connection_pool(): pool_watcher_.join() returns
DtorJoin ==
    /\ dpc = "join"
    /\ wpc = "exited"
    /\ dpc' = "done"
    /\ UNCHANGED <<now, configVars, watch_pool_, wchecked, late_pass, sesson_pool_, pool_mutex_,
                   waiting, callerVars, closed, watcherVars, refillVars, backoffVars, sockVars,
                   tlsVars, connVars, extVars>>

\* the clock advances
Tick ==
    /\ now + TickMs <= MaxTime
    /\ now' = now + TickMs
    /\ UNCHANGED <<poolVars, sockVars, tlsVars, connVars, extVars>>

\* the steps of one caller thread
CallerActs(c) ==
    \/ \E op \in {"get", "try"}, dl \in GetDeadlines : GetStart(c, op, dl)
    \/ LockTimeout(c)
    \/ GetLocked(c)
    \/ CvTimeout(c)
    \/ CvSpurious(c)
    \/ TryLocked(c)
    \/ RetStart(c)
    \/ RetLocked(c)
    \/ CloseHeld(c)
    \/ Discard(c)

CallerNext == \E c \in Callers : CallerActs(c)

\* the steps of a thread that waits for the pool in get_session or
\* is_connected and returns what it got
WaiterActs(c) ==
    \/ \E op \in {"get", "isc"}, dl \in GetDeadlines : GetStart(c, op, dl)
    \/ LockTimeout(c)
    \/ GetLocked(c)
    \/ IscLocked(c)
    \/ CvTimeout(c)
    \/ CvSpurious(c)
    \/ RetStart(c)
    \/ RetLocked(c)

\* the steps that run inside a call of is_connected
ProbeProgress(c) == LockTimeout(c) \/ IscLocked(c) \/ CvTimeout(c)

\* the steps of a thread that only asks is_connected
ProbeActs(c) ==
    \/ \E dl \in GetDeadlines : GetStart(c, "isc", dl)
    \/ LockTimeout(c)
    \/ IscLocked(c)
    \/ CvTimeout(c)
    \/ CvSpurious(c)

WatcherNext ==
    \/ WatchLock
    \/ WatchEvict
    \/ WatchRefill
    \/ \E ok \in BOOLEAN : AdderConnect(ok)
    \/ \E sid \in wReady : AdderLock(sid)
    \/ AdderAppend
    \/ \E ok \in BOOLEAN : InlConnect(ok)
    \/ InlLock
    \/ InlAppend
    \/ WatchJoin
    \/ WatchWake

(***************************************************************************)
(* One session of the timed socket layer (timed_base, base_socket,         *)
(* stream_socket; datagram_socket::send / receive have the same body as    *)
(* the stream ones)                                                        *)
(***************************************************************************)
\* largest buffer handed to a socket or TLS call
MaxBuf == 2

\* boost::asio chrono_time_traits::add used by expires_from_now: saturates
ExpiresFromNow(t, d) == IF kTimePointMax - t < d THEN kTimePointMax ELSE t + d

\* timed_base::kDurationResolution (1 us), in the millisecond unit of the model
\* only the zero duration is shorter
BelowResolution(d) == d < 1

SockOps == {"send", "receive", "write_some", "read_some"}
\* send and receive reissue the asynchronous call while it reports try_again
Reissues(op) == op \in {"send", "receive"}

\* outcomes of the underlying asynchronous call, by the state of the handle
CompletionOutcomes(open) ==
    IF open THEN {"success", "try_again", "eof"} ELSE {"bad_descriptor"}

\* base_socket::close(): next_layer().close(ec)
BaseClose(open) == [open |-> FALSE, ec |-> "success"]

\* variant of DeadlineActor: the handle is left open
DeadlineActorNoClose(open) == open

\* base_socket::deadline_actor(): close(ignored_ec) on the base socket
DeadlineActor(open) == BaseClose(open).open

\* outcomes of next_layer().shutdown(shutdown_both, ec)
ShutdownOutcomes(open) ==
    IF open THEN {"success", "not_connected"} ELSE {"bad_descriptor"}

\* stream_socket::close(), given the result of the shutdown
StreamClose(open, shut) ==
    IF shut # "not_connected"
    THEN [open |-> open, ec |-> shut]
    ELSE BaseClose(open)

\* the completion handler of send / receive / write_some / read_some
HandlerEc(fired, error) == IF fired THEN "timed_out" ELSE error

\* variant of ExpirationDtor: the timer keeps the expiry it was given
ExpirationDtorKeeps(owns, expiry, t) == expiry

\* ~expiration(): an expiration that owns the timer disarms it
ExpirationDtor(owns, expiry, t) ==
    IF owns THEN ExpiresFromNow(t, kInfiniteDuration) ELSE expiry

\* the two families of overloads: with an error_code& and throwing
Overloads == {"ec", "throwing"}

\* expiration(timer, duration): throws system_error{timed_out} for a duration
\* below the resolution
ScopeExpireThrows(d) == BelowResolution(d)

\* the throwing overloads: if (ec) throw system_error{ec, ...}
ThrowsOnError(ov, e) == ov = "throwing" /\ e # "success"

SockInit ==
    /\ s_open = TRUE
    /\ expires_at_ = kTimePointMax
    /\ deadline_fired_ = FALSE
    /\ timerQueued = TRUE
    /\ spc = "idle"
    /\ s_op = "none"
    /\ s_ec = "success"
    /\ transfered_bytes = 0
    /\ toSend = 0
    /\ setup_expiration = FALSE
    /\ handlerExp = FALSE
    /\ opDeadline = kTimePointMax
    /\ s_ret = "none"
    /\ closeRet = "none"
    /\ actorRan = FALSE
    /\ pooled = FALSE
    /\ s_overload = "ec"
    /\ s_timeout = -1
    /\ thrown = FALSE

SockIdle ==
    /\ s_open = FALSE
    /\ expires_at_ = kTimePointMax
    /\ deadline_fired_ = FALSE
    /\ timerQueued = FALSE
    /\ spc = "stopped"
    /\ s_op = "none"
    /\ s_ec = "success"
    /\ transfered_bytes = 0
    /\ toSend = 0
    /\ setup_expiration = FALSE
    /\ handlerExp = FALSE
    /\ opDeadline = kTimePointMax
    /\ s_ret = "none"
    /\ closeRet = "none"
    /\ actorRan = FALSE
    /\ pooled = FALSE
    /\ s_overload = "ec"
    /\ s_timeout = -1
    /\ thrown = FALSE

\* durations and deadlines a caller passes to a socket call
SockDurations == {0, TickMs, kInfiniteDuration}
SockDeadlines == {now, now + TickMs, kTimePointMax}

\* a call given a duration: scope_expire(duration) inside the first
\* async_send / async_receive / async_write_some / async_read_some
SockStartDuration(op, ov, n, d) ==
    /\ spc = "idle"
    /\ ~pooled
    /\ s_op' = op
    /\ s_overload' = ov
    /\ s_timeout' = d
    /\ toSend' = n
    /\ transfered_bytes' = 0
    /\ deadline_fired_' = FALSE
    /\ IF BelowResolution(d)
       THEN \* expiration(timer, duration) throws system_error{timed_out} out
            \* of scope_expire; nothing on the way up catches it, no I/O is
            \* started and ec keeps the would_block written before the call
            /\ s_ret' = "timed_out"
            /\ s_ec' = "would_block"
            /\ thrown' = ScopeExpireThrows(d)
            \* the delegated-to constructor has completed, so unwinding runs
            \* ~expiration() on the timer
            /\ expires_at_' = ExpirationDtor(TRUE, expires_at_, now)
            /\ timerQueued' = TRUE
            /\ UNCHANGED <<spc, handlerExp, opDeadline, setup_expiration>>
       ELSE /\ spc' = "pending"
            /\ s_ec' = "would_block"
            /\ setup_expiration' = FALSE
            /\ opDeadline' = ExpiresFromNow(now, d)
            /\ IF d = kInfiniteDuration
               THEN \* timer_ = nullptr: the timer is left alone
                    UNCHANGED <<expires_at_, timerQueued, handlerExp>>
               ELSE /\ expires_at_' = ExpiresFromNow(now, d)
                    /\ timerQueued' = TRUE
                    /\ handlerExp' = TRUE
            /\ thrown' = FALSE
            /\ UNCHANGED s_ret
    /\ UNCHANGED <<now, s_open, closeRet, actorRan, pooled, poolVars, tlsVars, connVars, extVars>>

\* a call given a time point: expiration(timer, deadline)
SockStartDeadline(op, ov, n, dl) ==
    /\ spc = "idle"
    /\ ~pooled
    /\ s_op' = op
    /\ s_overload' = ov
    /\ s_timeout' = -1
    /\ thrown' = FALSE
    /\ toSend' = n
    /\ transfered_bytes' = 0
    /\ deadline_fired_' = FALSE
    /\ spc' = "pending"
    /\ s_ec' = "would_block"
    /\ setup_expiration' = FALSE
    /\ opDeadline' = dl
    /\ expires_at_' = dl
    /\ timerQueued' = TRUE
    /\ handlerExp' = TRUE
    /\ UNCHANGED <<now, s_open, s_ret, closeRet, actorRan, pooled, poolVars, tlsVars, connVars, extVars>>

\* run_one() runs timed_base::check_deadline
SockTimer ==
    /\ spc = "pending"
    /\ handler_this = "session"
    /\ timerQueued \/ expires_at_ <= now
    /\ IF expires_at_ <= now
       THEN /\ s_open' = DeadlineActor(s_open)
            /\ deadline_fired_' = TRUE
            /\ actorRan' = TRUE
            /\ expires_at_' = ExpiresFromNow(now, kInfiniteDuration)
       ELSE UNCHANGED <<s_open, deadline_fired_, actorRan, expires_at_>>
    /\ timerQueued' = FALSE
    /\ UNCHANGED <<now, spc, s_op, s_ec, transfered_bytes, toSend, setup_expiration,
                   handlerExp, opDeadline, s_ret, closeRet, pooled, s_overload, s_timeout,
                   thrown, poolVars, tlsVars, connVars, extVars>>

\* run_one() runs the completion handler of the pending asynchronous call;
\* the handler object (and the expiration it captured) is destroyed after
\* the call; send / receive then reissue on try_again with
\* setup_expiration = false, every other result ends the call
SockComplete(res, n) ==
    /\ spc = "pending"
    /\ res \in CompletionOutcomes(s_open)
    /\ n = (IF res = "success" THEN toSend - transfered_bytes ELSE 0)
    /\ transfered_bytes' = transfered_bytes + n
    /\ expires_at_' = ExpirationDtor(handlerExp, expires_at_, now)
    /\ timerQueued' = (timerQueued \/ handlerExp)
    /\ handlerExp' = FALSE
    /\ LET e == HandlerEc(deadline_fired_, res)
       IN  IF Reissues(s_op) /\ e = "try_again"
           THEN /\ s_ec' = "would_block"
                /\ UNCHANGED <<spc, s_ret, thrown>>
           ELSE /\ s_ec' = e
                /\ spc' = "idle"
                /\ s_ret' = e
                /\ thrown' = ThrowsOnError(s_overload, e)
    /\ UNCHANGED <<now, s_open, deadline_fired_, s_op, toSend, setup_expiration, opDeadline,
                   closeRet, actorRan, pooled, s_overload, s_timeout, poolVars, tlsVars, connVars, extVars>>

\* stream_socket::close()
SockClose(shut) ==
    /\ spc = "idle"
    /\ ~pooled
    /\ shut \in ShutdownOutcomes(s_open)
    /\ s_op' = "close"
    /\ s_open' = StreamClose(s_open, shut).open
    /\ closeRet' = StreamClose(s_open, shut).ec
    /\ UNCHANGED <<now, expires_at_, deadline_fired_, timerQueued, spc, s_ec,
                   transfered_bytes, toSend, setup_expiration, handlerExp, opDeadline,
                   s_ret, actorRan, pooled, s_overload, s_timeout, thrown, poolVars, tlsVars, connVars, extVars>>

\* base_socket::close(), the close() of a datagram session
SockBaseClose ==
    /\ spc = "idle"
    /\ ~pooled
    /\ s_op' = "base_close"
    /\ s_open' = BaseClose(s_open).open
    /\ closeRet' = BaseClose(s_open).ec
    /\ UNCHANGED <<now, expires_at_, deadline_fired_, timerQueued, spc, s_ec,
                   transfered_bytes, toSend, setup_expiration, handlerExp, opDeadline,
                   s_ret, actorRan, pooled, s_overload, s_timeout, thrown, poolVars, tlsVars, connVars, extVars>>

\* the holder hands the session to return_session; a session that passes the
\* test is appended to the pool
SockReturn ==
    /\ spc = "idle"
    /\ ~pooled
    /\ s_op' = "return_session"
    /\ pooled' = ~SessionRejected(1, IF s_open THEN {} ELSE {1})
    /\ UNCHANGED <<now, s_open, expires_at_, deadline_fired_, timerQueued, spc, s_ec,
                   transfered_bytes, toSend, setup_expiration, handlerExp, opDeadline,
                   s_ret, closeRet, actorRan, s_overload, s_timeout, thrown, poolVars,
                   tlsVars, connVars, extVars>>

\* get_session delivers the session again
SockBorrow ==
    /\ pooled
    /\ pooled' = FALSE
    /\ s_op' = "get_session"
    /\ UNCHANGED <<now, s_open, expires_at_, deadline_fired_, timerQueued, spc, s_ec,
                   transfered_bytes, toSend, setup_expiration, handlerExp, opDeadline,
                   s_ret, closeRet, actorRan, s_overload, s_timeout, thrown, poolVars,
                   tlsVars, connVars, extVars>>

SockNext ==
    \/ \E op \in SockOps, ov \in Overloads, n \in 1..MaxBuf, d \in SockDurations :
          SockStartDuration(op, ov, n, d)
    \/ \E op \in SockOps, ov \in Overloads, n \in 1..MaxBuf, dl \in SockDeadlines :
          SockStartDeadline(op, ov, n, dl)
    \/ SockTimer
    \/ \E res \in {"success", "try_again", "eof", "bad_descriptor"}, n \in 0..MaxBuf :
          SockComplete(res, n)
    \/ \E shut \in {"success", "not_connected", "bad_descriptor"} : SockClose(shut)
    \/ SockBaseClose
    \/ SockReturn
    \/ SockBorrow
    \/ Tick

(***************************************************************************)
(* TLS session: ssl::stream_socket send / receive and their overloads      *)
(***************************************************************************)
\* bound on the bytes one TLS call may report (caps a loop that overshoots)
MaxTlsBytes == 4

\* base_socket::io_timeout()
IoTimeout(enabled, configured) == IF enabled THEN configured ELSE kInfiniteDuration

\* ssl send: the offsets of `buffers` a write_some that reports n bytes has
\* written; every call is handed the whole of `buffers`
WrittenOffsets(done, n) == [i \in 1..n |-> i]

\* ssl receive: read_some stores the next n stream bytes at the start of the
\* region it was handed, which is the whole of `buffers` on every call
StoredAt(done, i) == i

\* the loop condition of ssl send / receive
TlsLoopContinues(done, size) == done # size

\* 1, 2, ..., n
Iota(n) == [i \in 1..n |-> i]

TlsInit ==
    /\ tpc = "idle"
    /\ t_op = "none"
    /\ bufSize = 0
    /\ t_transfered = 0
    /\ wire = <<>>
    /\ rbuf = <<>>
    /\ rpos = 0
    /\ t_ec = "success"
    /\ t_deadline = kTimePointMax
    /\ t_timeout = 0 - 1
    /\ t_open = TRUE
    /\ io_timeouted_ = TRUE
    /\ io_operation_timeout_ \in {TickMs, kInfiniteDuration}
    /\ orig_io_timeout_mode = TRUE

TlsIdle ==
    /\ tpc = "stopped"
    /\ t_op = "none"
    /\ bufSize = 0
    /\ t_transfered = 0
    /\ wire = <<>>
    /\ rbuf = <<>>
    /\ rpos = 0
    /\ t_ec = "success"
    /\ t_deadline = kTimePointMax
    /\ t_timeout = 0 - 1
    /\ t_open = FALSE
    /\ io_timeouted_ = TRUE
    /\ io_operation_timeout_ = kInfiniteDuration
    /\ orig_io_timeout_mode = TRUE

\* entry of ssl send / receive(buffers, ec, deadline)
TlsEnter(op, size, dl, d) ==
    /\ tpc = "idle"
    /\ t_op' = op
    /\ bufSize' = size
    /\ t_transfered' = 0
    /\ wire' = <<>>
    /\ rbuf' = [i \in 1..size |-> 0]
    /\ rpos' = 0
    /\ t_ec' = "success"
    /\ t_deadline' = dl
    /\ t_timeout' = d
    /\ tpc' = "loop"
    /\ UNCHANGED <<now, t_open, io_timeouted_, io_operation_timeout_, orig_io_timeout_mode, poolVars, sockVars, connVars, extVars>>

\* send / receive(buffers, ec, deadline) called with a time point
TlsStartDeadline(op, size, dl) == TlsEnter(op, size, dl, 0 - 1)

\* the aliases send / receive(buffers, ec, timeout) =
\* send / receive(buffers, ec, clock_type::now() + timeout)
TlsStartTimeout(op, size, d) ==
    \E dl \in AddDuration(now, d) : TlsEnter(op, size, dl, d)

\* the aliases send / receive(buffers, ec) =
\* send / receive(buffers, ec, clock_type::now() + io_timeout())
TlsStartDefault(op, size) ==
    TlsStartTimeout(op, size, IoTimeout(io_timeouted_, io_operation_timeout_))

\* io_timeout_enabled(new_mode) called by the owner of the session
TlsSetIoTimeoutEnabled(mode) ==
    /\ tpc = "idle"
    /\ io_timeouted_ # mode
    /\ io_timeouted_' = mode
    /\ UNCHANGED <<now, tpc, t_op, bufSize, t_transfered, wire, rbuf, rpos, t_ec,
                   t_deadline, t_timeout, t_open, io_operation_timeout_, orig_io_timeout_mode, poolVars, sockVars, connVars, extVars>>

\* one iteration of the loop: write_some / read_some(buffers, ec, deadline)
\* with scope_expire(deadline) around the blocking TLS call.  The timer set
\* by expires_at(deadline) can fire once deadline <= now and closes the handle;
\* the transfer may also complete first.
TlsSome(res, n) ==
    /\ tpc = "loop"
    /\ IF ~t_open THEN res = "bad_descriptor" /\ n = 0
       ELSE \/ t_deadline <= now /\ res = "timed_out" /\ n = 0
            \/ res = "success" /\ n \in 1..bufSize
            \/ res = "eof" /\ n = 0
    /\ t_transfered + n <= MaxTlsBytes
    /\ t_open' = (IF res = "timed_out" THEN DeadlineActor(t_open) ELSE t_open)
    /\ t_ec' = res
    /\ t_transfered' = t_transfered + n
    /\ IF t_op = "send"
       THEN /\ wire' = wire \o WrittenOffsets(t_transfered, n)
            /\ UNCHANGED <<rbuf, rpos>>
       ELSE /\ rbuf' = [i \in 1..bufSize |->
                          IF \E k \in 1..n : StoredAt(t_transfered, k) = i
                          THEN rpos + (CHOOSE k \in 1..n : StoredAt(t_transfered, k) = i)
                          ELSE rbuf[i]]
            /\ rpos' = rpos + n
            /\ UNCHANGED wire
    /\ tpc' = IF res # "success" \/ ~TlsLoopContinues(t_transfered', bufSize)
              THEN "idle" ELSE "loop"
    /\ UNCHANGED <<now, t_op, bufSize, t_deadline, t_timeout, io_timeouted_,
                   io_operation_timeout_, orig_io_timeout_mode, poolVars, sockVars, connVars, extVars>>

\* outcomes of ssl_layer().shutdown(ec): the peer answers, omits its
\* close_notify (short read) or has reset the connection
SslShutdownOutcomes(open) ==
    IF open THEN {"success", "stream_truncated", "connection_reset"}
    ELSE {"bad_descriptor"}

\* variant of SslClose: the short read is not turned into success
SslCloseKeepShortRead(open, shut) ==
    IF shut # "success" THEN [open |-> open, ec |-> shut] ELSE BaseClose(open)

\* ssl::stream_socket::close(), given the result of the TLS shutdown
SslClose(open, shut) ==
    LET e == IF shut = "stream_truncated" THEN "success" ELSE shut
    IN  IF e # "success" THEN [open |-> open, ec |-> e] ELSE BaseClose(open)

\* ssl::stream_socket::close() called by the owner of the session
TlsClose(shut) ==
    /\ tpc = "idle"
    /\ shut \in SslShutdownOutcomes(t_open)
    /\ t_op' = "close"
    /\ t_open' = SslClose(t_open, shut).open
    /\ t_ec' = SslClose(t_open, shut).ec
    /\ UNCHANGED <<now, tpc, bufSize, t_transfered, wire, rbuf, rpos, t_deadline,
                   t_timeout, io_timeouted_, io_operation_timeout_, orig_io_timeout_mode, poolVars, sockVars, connVars, extVars>>

TlsOps == {"send", "receive"}
TlsDeadlines == {now, now + TickMs, kTimePointMax}
TlsDurations == {TickMs, kInfiniteDuration}

\* the calls that bracket one blocking TLS call with io_timeout_enabled
TlsCalls == {"handshake", "write_some", "read_some"}
TlsCallDurations == {0, TickMs, kInfiniteDuration}

\* base_socket::io_timeout_enabled(new_mode): std::swap(io_timeouted_, new_mode);
\* return new_mode
IoTimeoutEnabled(flag, new_mode) == [flag |-> new_mode, previous |-> flag]

\* handshake / write_some / read_some(..., ec, timeout_or_deadline):
\* bool orig_io_timeout_mode = io_timeout_enabled(false)
TlsCallEnter(op, size, kind, t) ==
    /\ tpc = "idle"
    /\ t_open
    /\ op \in TlsCalls
    /\ kind \in {"duration", "deadline"}
    /\ tpc' = "scope"
    /\ t_op' = op
    /\ bufSize' = IF op = "handshake" THEN 0 ELSE size
    /\ t_transfered' = 0
    /\ wire' = <<>>
    /\ rbuf' = [i \in 1..bufSize' |-> 0]
    /\ rpos' = 0
    /\ t_ec' = "success"
    /\ t_timeout' = IF kind = "duration" THEN t ELSE 0 - 1
    /\ t_deadline' = IF kind = "deadline" THEN t ELSE kTimePointMax
    /\ orig_io_timeout_mode' = IoTimeoutEnabled(io_timeouted_, FALSE).previous
    /\ io_timeouted_' = IoTimeoutEnabled(io_timeouted_, FALSE).flag
    /\ UNCHANGED <<now, t_open, io_operation_timeout_, poolVars, sockVars, connVars, extVars>>

\* the aliases handshake / write_some / read_some(..., ec) with io_timeout()
\* (handshake() with connection_timeout()), evaluated before the flag is cleared
TlsCallDefault(op, size) ==
    TlsCallEnter(op, size, "duration", IoTimeout(io_timeouted_, io_operation_timeout_))

\* const auto expire = scope_expire(timeout_or_deadline): the expiration
\* constructor throws timed_out for a duration below the resolution, and the
\* exception leaves the call; otherwise the timer is armed
TlsScopeExpire ==
    /\ tpc = "scope"
    /\ IF t_timeout # 0 - 1 /\ ScopeExpireThrows(t_timeout)
       THEN /\ tpc' = "idle"
            /\ t_ec' = "timed_out"
            /\ UNCHANGED t_deadline
       ELSE /\ tpc' = "some"
            /\ t_deadline' = IF t_timeout = 0 - 1 THEN t_deadline
                             ELSE IF t_timeout = kInfiniteDuration THEN kTimePointMax
                             ELSE now + t_timeout
            /\ UNCHANGED t_ec
    /\ UNCHANGED <<now, t_op, bufSize, t_transfered, wire, rbuf, rpos, t_timeout, t_open,
                   io_timeouted_, io_operation_timeout_, orig_io_timeout_mode, poolVars,
                   sockVars, connVars, extVars>>

\* ssl_layer().handshake / write_some / read_some returns, with success or an
\* error in ec (timed_out once the timer has closed the handle), and
\* io_timeout_enabled(orig_io_timeout_mode) restores the flag
TlsCallReturn(res, n) ==
    /\ tpc = "some"
    /\ \/ t_deadline <= now /\ res = "timed_out" /\ n = 0
       \/ res = "success" /\ n \in 1..bufSize
       \/ res = "success" /\ n = 0 /\ t_op = "handshake"
       \/ res \in {"eof", "connection_reset"} /\ n = 0
    /\ t_open' = (IF res = "timed_out" THEN DeadlineActor(t_open) ELSE t_open)
    /\ t_ec' = res
    /\ t_transfered' = n
    /\ IF t_op = "write_some"
       THEN wire' = WrittenOffsets(0, n) /\ UNCHANGED <<rbuf, rpos>>
       ELSE IF t_op = "read_some"
            THEN /\ rbuf' = [i \in 1..bufSize |-> IF i <= n THEN i ELSE rbuf[i]]
                 /\ rpos' = n
                 /\ UNCHANGED wire
            ELSE UNCHANGED <<wire, rbuf, rpos>>
    /\ io_timeouted_' = IoTimeoutEnabled(io_timeouted_, orig_io_timeout_mode).flag
    /\ tpc' = "idle"
    /\ UNCHANGED <<now, t_op, bufSize, t_deadline, t_timeout, io_operation_timeout_,
                   orig_io_timeout_mode, poolVars, sockVars, connVars, extVars>>

\* the session is replaced by a newly connected one
TlsReconnect ==
    /\ tpc = "idle"
    /\ ~t_open
    /\ t_open' = TRUE
    /\ UNCHANGED <<now, tpc, t_op, bufSize, t_transfered, wire, rbuf, rpos, t_ec, t_deadline,
                   t_timeout, io_timeouted_, io_operation_timeout_, orig_io_timeout_mode,
                   poolVars, sockVars, connVars, extVars>>

\* direct handshake / write_some / read_some calls by the owner of the session
TlsCallNext ==
    \/ \E op \in TlsCalls, size \in 1..MaxBuf, dl \in TlsDeadlines :
          TlsCallEnter(op, size, "deadline", dl)
    \/ \E op \in TlsCalls, size \in 1..MaxBuf, d \in TlsCallDurations :
          TlsCallEnter(op, size, "duration", d)
    \/ \E op \in TlsCalls, size \in 1..MaxBuf : TlsCallDefault(op, size)
    \/ TlsScopeExpire
    \/ \E res \in {"success", "eof", "connection_reset", "timed_out"}, n \in 0..MaxBuf :
          TlsCallReturn(res, n)
    \/ \E mode \in BOOLEAN : TlsSetIoTimeoutEnabled(mode)
    \/ TlsReconnect
    \/ Tick

TlsNext ==
    \/ \E op \in TlsOps, size \in 1..MaxBuf, dl \in TlsDeadlines :
          TlsStartDeadline(op, size, dl)
    \/ \E op \in TlsOps, size \in 1..MaxBuf, d \in TlsDurations :
          TlsStartTimeout(op, size, d)
    \/ \E op \in TlsOps, size \in 1..MaxBuf : TlsStartDefault(op, size)
    \/ \E mode \in BOOLEAN : TlsSetIoTimeoutEnabled(mode)
    \/ \E res \in {"success", "eof", "timed_out", "bad_descriptor"}, n \in 0..MaxBuf :
          TlsSome(res, n)
    \/ \E shut \in {"success", "stream_truncated", "connection_reset", "bad_descriptor"} :
          TlsClose(shut)
    \/ Tick

(***************************************************************************)
(* Connector: refresh worker and new_session                               *)
(***************************************************************************)
\* threads calling new_session on one connector
ConnClients == {"n1"}

\* the resolver's answers: the endpoints of the host, in one order or the other
Endpoints == 1..MaxEndpoints
Reversed(k) == [i \in 1..k |-> k + 1 - i]
ResolveLists == {Iota(MaxEndpoints), Reversed(MaxEndpoints)}
ResolveErrors == {"host_not_found"}

\* connect_timeout given to the connector's constructor
connect_timeout_ == TickMs
ConnTimeouts == {0, TickMs}

\* member initialisers of the two flags
ResolveNeededInitUnset == FALSE
ResolveNeededInit == TRUE
ResolveDoneInit == FALSE

ConnInit ==
    /\ endpoints_ = <<>>
    /\ resolve_error_ = "success"
    /\ resolve_needed_ = ResolveNeededInit
    /\ resolve_done_ = ResolveDoneInit
    /\ rpc = "wait"
    /\ resolved = <<>>
    /\ new_endpoints = <<>>
    /\ npc = [c \in ConnClients |-> "idle"]
    /\ n_overload = [c \in ConnClients |-> "none"]
    /\ n_until = [c \in ConnClients |-> 0]
    /\ n_deadline = [c \in ConnClients |-> 0]
    /\ n_ec = [c \in ConnClients |-> "success"]
    /\ n_session = [c \in ConnClients |-> nullptr]
    /\ n_open = [c \in ConnClients |-> FALSE]
    /\ n_list = [c \in ConnClients |-> <<>>]
    /\ n_target = [c \in ConnClients |-> 0]
    /\ n_thrown = [c \in ConnClients |-> FALSE]
    /\ published = <<>>
    /\ refresh_requests = 1

\* a connector nobody uses and whose worker is not scheduled
ConnIdle == ConnInit

\* notify_resolve_needed(): resolve_needed_ = true under its mutex, notify_all
notify_resolve_needed_lost == UNCHANGED resolve_needed_
notify_resolve_needed == resolve_needed_' = TRUE

\* notify_resolve_done(): resolve_done_ = true under its mutex, notify_all
notify_resolve_done == resolve_done_' = TRUE

\* set_resolve_error(err) / get_resolve_error(), both under endpoints_mutex_
set_resolve_error(err) == resolve_error_' = err
get_resolve_error == resolve_error_

\* update_endpoints() first fills a local list, one emplace_back per resolved
\* endpoint; the cache keeps its value until the final move under the mutex
CacheWhileFillingDirect(cache, local) == local
CacheWhileFilling(cache, local) == cache

\* get_endpoints(): a copy of the cache taken under endpoints_mutex_
get_endpoints == endpoints_

\* the worker leaves its wait on "needed": it consumes the flag and starts
\* resolver.resolve(resolve_timeout)
ResolveWake ==
    /\ rpc = "wait"
    /\ resolve_needed_
    /\ resolve_needed_' = FALSE
    /\ rpc' = "resolving"
    /\ refresh_requests' = 0
    /\ UNCHANGED <<published, endpoints_, resolve_error_, resolve_done_, resolved, new_endpoints,
                   clientVars, nonConnVars>>

\* resolve succeeded with a list: update_endpoints starts with an empty local list
ResolveSucceeded(list) ==
    /\ rpc = "resolving"
    /\ resolved' = list
    /\ new_endpoints' = <<>>
    /\ rpc' = "update"
    /\ UNCHANGED <<published, endpoints_, resolve_error_, resolve_needed_, resolve_done_,
                   refresh_requests,
                   clientVars, nonConnVars>>

\* resolve failed: record the error, set "done", then sleep
ResolveFailed(err) ==
    /\ rpc = "resolving"
    /\ set_resolve_error(err)
    /\ notify_resolve_done
    /\ rpc' = "sleep"
    /\ UNCHANGED <<published, endpoints_, resolve_needed_, resolved, new_endpoints,
                   refresh_requests,
                   clientVars, nonConnVars>>

\* update_endpoints: new_endpoints.emplace_back(...) for the next resolved entry
UpdateAppend ==
    /\ rpc = "update"
    /\ Len(new_endpoints) < Len(resolved)
    /\ new_endpoints' = Append(new_endpoints, resolved[Len(new_endpoints) + 1])
    /\ endpoints_' = CacheWhileFilling(endpoints_, new_endpoints')
    /\ UNCHANGED <<published, resolve_error_, resolve_needed_, resolve_done_, rpc, resolved,
                   refresh_requests,
                   clientVars, nonConnVars>>

\* update_endpoints: endpoints_ = std::move(new_endpoints) under the mutex
UpdatePublish ==
    /\ rpc = "update"
    /\ Len(new_endpoints) = Len(resolved)
    /\ endpoints_' = new_endpoints
    /\ published' = new_endpoints
    /\ new_endpoints' = <<>>
    /\ resolved' = <<>>
    /\ rpc' = "publish_done"
    /\ UNCHANGED <<resolve_error_, resolve_needed_, resolve_done_, refresh_requests,
                   clientVars, nonConnVars>>

\* after a successful resolve the worker sets "done" and waits for "needed"
ResolveDone ==
    /\ rpc = "publish_done"
    /\ notify_resolve_done
    /\ rpc' = "wait"
    /\ UNCHANGED <<published, endpoints_, resolve_error_, resolve_needed_, resolved, new_endpoints,
                   refresh_requests,
                   clientVars, nonConnVars>>

\* after a failure the worker sleeps until "needed" is set or a bounded wait
\* has elapsed, then waits for "needed"
ResolveSleepOver ==
    /\ rpc = "sleep"
    /\ rpc' = "wait"
    /\ UNCHANGED <<published, endpoints_, resolve_error_, resolve_needed_, resolve_done_, resolved,
                   new_endpoints, refresh_requests,
                   clientVars, nonConnVars>>

ResolveRoutine ==
    \/ ResolveWake
    \/ \E list \in ResolveLists : ResolveSucceeded(list)
    \/ \E err \in ResolveErrors : ResolveFailed(err)
    \/ UpdateAppend
    \/ UpdatePublish
    \/ ResolveDone
    \/ ResolveSleepOver

\* new_session(ec, timeout) = new_session(ec, clock_type::now() + timeout)
DurationDeadlineNever(t, d) == {kTimePointMax}
DurationDeadline(t, d) == AddDuration(t, d)

\* the timeout each overload passes on: new_session() calls new_session(ec),
\* which uses get_connect_timeout()
OverloadTimeout(ov, d) == IF ov = "throwing" THEN connect_timeout_ ELSE d

NewSessionEnter(c, ov, d, dl) ==
    /\ npc[c] = "idle"
    /\ now + d <= MaxTime
    /\ npc' = [npc EXCEPT ![c] = "wait_done"]
    /\ n_overload' = [n_overload EXCEPT ![c] = ov]
    /\ n_until' = [n_until EXCEPT ![c] = now + d]
    /\ n_deadline' = [n_deadline EXCEPT ![c] = dl]
    /\ n_ec' = [n_ec EXCEPT ![c] = "success"]
    /\ n_session' = [n_session EXCEPT ![c] = nullptr]
    /\ n_open' = [n_open EXCEPT ![c] = FALSE]
    /\ n_thrown' = [n_thrown EXCEPT ![c] = FALSE]
    /\ UNCHANGED <<n_list, n_target, workerVars, nonConnVars>>

\* new_session(ec, deadline)
NewSessionUntil(c, d) == NewSessionEnter(c, "ec", d, now + d)

\* new_session(ec, timeout) and new_session()
NewSessionFor(c, ov, d) ==
    \E dl \in DurationDeadline(now, OverloadTimeout(ov, d)) :
        NewSessionEnter(c, ov, OverloadTimeout(ov, d), dl)

\* step 1: with an empty cache, wait on "done" until the deadline
NsWaitDone(c) ==
    /\ npc[c] = "wait_done"
    /\ get_endpoints # <<>> \/ resolve_done_ \/ now >= n_deadline[c]
    /\ npc' = [npc EXCEPT ![c] = "read"]
    /\ UNCHANGED <<n_overload, n_until, n_deadline, n_ec, n_session, n_open,
                   n_list, n_target, n_thrown, workerVars, nonConnVars>>

\* the error reported with an empty cache: the last resolve error, or Timeout
EmptyCacheError == IF get_resolve_error # "success" THEN get_resolve_error ELSE "timed_out"

\* steps 2 and 3: read the cache; empty: report; otherwise pick an endpoint
NsRead(c) ==
    /\ npc[c] = "read"
    /\ n_list' = [n_list EXCEPT ![c] = get_endpoints]
    /\ IF get_endpoints = <<>>
       THEN /\ n_ec' = [n_ec EXCEPT ![c] = EmptyCacheError]
            /\ npc' = [npc EXCEPT ![c] = "ret"]
            /\ UNCHANGED n_target
       ELSE /\ \E i \in DOMAIN get_endpoints :
                  n_target' = [n_target EXCEPT ![c] = get_endpoints[i]]
            /\ npc' = [npc EXCEPT ![c] = "construct"]
            /\ UNCHANGED n_ec
    /\ UNCHANGED <<n_overload, n_until, n_deadline, n_session, n_open,
                   n_thrown, workerVars, nonConnVars>>

\* step 4, connect_until(endpoint, deadline): the session's constructor gets
\* connect_timeout = deadline - now; scope_expire(connect_timeout) throws
\* timed_out for a timeout below the resolution
NsConstruct(c) ==
    /\ npc[c] = "construct"
    /\ IF ScopeExpireThrows(n_deadline[c] - now)
       THEN /\ n_ec' = [n_ec EXCEPT ![c] = "timed_out"]
            /\ npc' = [npc EXCEPT ![c] = "failed"]
       ELSE /\ npc' = [npc EXCEPT ![c] = "connecting"]
            /\ UNCHANGED n_ec
    /\ UNCHANGED <<n_overload, n_until, n_deadline, n_session, n_open,
                   n_list, n_target, n_thrown, workerVars, nonConnVars>>

\* the address of a session made by connect_until: any non-null pointer
NewSessionPtr == nullptr + 1

\* what the constructor throws after async_connect completed with e and the
\* handle is open or not ("success": it does not throw)
CtorErrorIgnoringHandle(e, open) == e
CtorError(e, open) ==
    IF e # "success" THEN e
    ELSE IF ~open THEN "operation_aborted"
    ELSE "success"

\* completions of async_connect: the peer's answer, or timed_out once the
\* connect timer has fired
ConnectResults(c) ==
    {"success", "connection_refused"} \cup
    (IF now >= n_deadline[c] THEN {"timed_out"} ELSE {})

NsConnected(c, e, open) ==
    /\ npc[c] = "connecting"
    /\ e \in ConnectResults(c)
    /\ e # "success" => ~open
    /\ IF CtorError(e, open) = "success"
       THEN /\ n_session' = [n_session EXCEPT ![c] = NewSessionPtr]
            /\ n_open' = [n_open EXCEPT ![c] = open]
            /\ npc' = [npc EXCEPT ![c] = "ret"]
            /\ UNCHANGED n_ec
       ELSE /\ n_ec' = [n_ec EXCEPT ![c] = CtorError(e, open)]
            /\ npc' = [npc EXCEPT ![c] = "failed"]
            /\ UNCHANGED <<n_session, n_open>>
    /\ UNCHANGED <<n_overload, n_until, n_deadline, n_list, n_target,
                   n_thrown, workerVars, nonConnVars>>

\* step 5: request a refresh; with time left start over, otherwise report
NsFailed(c) ==
    /\ npc[c] = "failed"
    /\ notify_resolve_needed
    /\ refresh_requests' = IF refresh_requests < MaxRequests THEN refresh_requests + 1
                           ELSE refresh_requests
    /\ npc' = [npc EXCEPT ![c] = IF now < n_deadline[c] THEN "wait_done" ELSE "ret"]
    /\ UNCHANGED <<published, n_overload, n_until, n_deadline, n_ec, n_session, n_open,
                   n_list, n_target, n_thrown, endpoints_, resolve_error_,
                   resolve_done_, rpc, resolved, new_endpoints, nonConnVars>>

\* new_session(): throws system_error{ec} if ec is set, and
\* system_error{operation_aborted} if no session came back
ThrowingOverloadThrows(e, session) == e # "success" \/ session = nullptr

\* the call returns to its caller through the overload used; its locals end
NsReturn(c) ==
    /\ npc[c] = "ret"
    /\ npc' = [npc EXCEPT ![c] = "idle"]
    /\ n_thrown' = [n_thrown EXCEPT ![c] =
           n_overload[c] = "throwing" /\ ThrowingOverloadThrows(n_ec[c], n_session[c])]
    /\ n_list' = [n_list EXCEPT ![c] = <<>>]
    /\ n_target' = [n_target EXCEPT ![c] = 0]
    /\ n_until' = [n_until EXCEPT ![c] = 0]
    /\ n_deadline' = [n_deadline EXCEPT ![c] = 0]
    /\ UNCHANGED <<n_overload, n_ec, n_session, n_open, workerVars, nonConnVars>>

NsProgress(c) ==
    \/ NsWaitDone(c)
    \/ NsRead(c)
    \/ NsConstruct(c)
    \/ \E e \in {"success", "connection_refused", "timed_out"}, open \in BOOLEAN :
          NsConnected(c, e, open)
    \/ NsFailed(c)
    \/ NsReturn(c)

NsCall(c) ==
    \/ \E d \in ConnTimeouts : NewSessionUntil(c, d)
    \/ \E ov \in {"ec", "throwing"}, d \in ConnTimeouts :
          NewSessionFor(c, ov, d)

ConnNext ==
    \/ ResolveRoutine
    \/ \E c \in ConnClients : NsCall(c) \/ NsProgress(c)
    \/ Tick

(***************************************************************************)
(* The refill strategies called on their own: refill(connector,            *)
(* vacant_places, append_func) with any vacant_places, a connector whose   *)
(* new_session() succeeds or throws, and an append_func that counts        *)
(***************************************************************************)
\* arguments of conservative_strategy's constructor (it rejects a multiplier < 1)
FirstDelays == {0, 1, kDefaultDelayMs, kMaxBackoffMs + kMaxBackoffMs}
DelayMultipliers == {1, kDefaultDelayMul}
\* values of vacant_places the strategy is called with
VacantValues == 0..MaxVacant
\* random factors drawn by the calls
RefillRandVals == RandVals \cup {<<1, 2>>}

\* the pool of the strategy under test is not used
StratInit ==
    /\ pool_max_size_ = 1
    /\ idle_timeout_ = kInfiniteDuration
    /\ strategy \in Strategies
    /\ sesson_pool_ = <<>>
    /\ pool_mutex_ = "none"
    /\ waiting = {}
    /\ cop = [c \in Callers |-> "none"]
    /\ cpc = [c \in Callers |-> "idle"]
    /\ held = [c \in Callers |-> nullptr]
    /\ ec = [c \in Callers |-> "success"]
    /\ connected = [c \in Callers |-> FALSE]
    /\ deadline = [c \in Callers |-> 0]
    /\ tmo = [c \in Callers |-> FALSE]
    /\ closed = {}
    /\ wpc = "stopped"
    /\ wuntil = 0
    /\ vacant_places = 0
    /\ wConnecting = 0
    /\ wReady = {}
    /\ adderSid = nullptr
    /\ inl = "none"
    /\ inlSid = nullptr
    /\ is_added = FALSE
    /\ current_delay_ms_ = 0
    /\ wait_until_ = 0
    /\ watch_pool_ = TRUE
    /\ dpc = "none"
    /\ wchecked = FALSE
    /\ late_pass = 0
    /\ fpc = "idle"
    /\ first_delay_ms \in FirstDelays
    /\ delay_multiplier \in DelayMultipliers
    /\ attempts = 0
    /\ succeeded = 0
    /\ pending = 0
    /\ appended = 0
    /\ spawned = 0
    /\ failed_calls = 0
    /\ call_delay = 0
    /\ refill_ret = FALSE

\* no strategy is called on its own
StratIdle ==
    /\ fpc = "idle"
    /\ first_delay_ms = kDefaultDelayMs
    /\ delay_multiplier = kDefaultDelayMul
    /\ attempts = 0
    /\ succeeded = 0
    /\ pending = 0
    /\ appended = 0
    /\ spawned = 0
    /\ failed_calls = 0
    /\ call_delay = 0
    /\ refill_ret = FALSE

\* adders.reserve(parallel) throws std::length_error above max_size()
ReserveThrows(n) == n > Pow2(SizeBits - 1) - 1

\* refill(connector, vacant_places, append_func) is called
RefillCall(v) ==
    /\ fpc \in {"idle", "returned", "skipped", "threw"}
    /\ failed_calls < MaxFails
    /\ fpc' = "entry"
    /\ vacant_places' = v
    /\ attempts' = 0
    /\ succeeded' = 0
    /\ pending' = 0
    /\ appended' = 0
    /\ spawned' = 0
    /\ call_delay' = current_delay_ms_
    /\ refill_ret' = FALSE
    /\ UNCHANGED <<wConnecting, inl, is_added, backoffVars, first_delay_ms, delay_multiplier,
                   failed_calls, stratFrame>>

\* refill up to the spawn of the adders
RefillEnter ==
    /\ fpc = "entry"
    /\ IF strategy = "greedy"
       THEN /\ wConnecting' = GreedyAdders(vacant_places)
            /\ spawned' = GreedyAdders(vacant_places)
            /\ fpc' = "join"
            /\ UNCHANGED <<inl, is_added>>
       ELSE IF now < wait_until_
            THEN /\ fpc' = "skipped"
                 /\ UNCHANGED <<wConnecting, spawned, inl, is_added>>
            ELSE IF current_delay_ms_ = 0 /\ ReserveThrows(ParallelAdders(vacant_places))
                 THEN /\ fpc' = "threw"
                      /\ UNCHANGED <<wConnecting, spawned, inl, is_added>>
                 ELSE /\ is_added' = FALSE
                      /\ wConnecting' = ConservativeParallel(vacant_places, current_delay_ms_)
                      /\ spawned' = ConservativeParallel(vacant_places, current_delay_ms_)
                      /\ inl' = "connecting"
                      /\ fpc' = "join"
    /\ UNCHANGED <<vacant_places, attempts, succeeded, pending, appended, backoffVars,
                   first_delay_ms, delay_multiplier, failed_calls, call_delay, refill_ret,
                   stratFrame>>

\* add_session in a spawned thread: connector.new_session() returns a session
\* or throws system_error, which add_session catches
RefillAdderConnect(ok) ==
    /\ fpc = "join"
    /\ wConnecting > 0
    /\ wConnecting' = wConnecting - 1
    /\ attempts' = attempts + 1
    /\ succeeded' = IF ok THEN succeeded + 1 ELSE succeeded
    /\ pending' = IF ok THEN pending + 1 ELSE pending
    /\ UNCHANGED <<fpc, vacant_places, inl, is_added, appended, spawned, backoffVars,
                   first_delay_ms, delay_multiplier, failed_calls, call_delay, refill_ret,
                   stratFrame>>

\* add_session in a spawned thread: append_func(session), then is_added = true
\* in the conservative strategy
RefillAdderAppend ==
    /\ fpc = "join"
    /\ pending > 0
    /\ pending' = pending - 1
    /\ appended' = appended + 1
    /\ is_added' = IF strategy = "conservative" THEN TRUE ELSE is_added
    /\ UNCHANGED <<fpc, vacant_places, wConnecting, inl, attempts, succeeded, spawned,
                   backoffVars, first_delay_ms, delay_multiplier, failed_calls, call_delay,
                   refill_ret, stratFrame>>

\* conservative refill: add_session() in the calling thread, new_session()
RefillInlConnect(ok) ==
    /\ fpc = "join"
    /\ inl = "connecting"
    /\ inl' = IF ok THEN "ready" ELSE "done"
    /\ attempts' = attempts + 1
    /\ succeeded' = IF ok THEN succeeded + 1 ELSE succeeded
    /\ UNCHANGED <<fpc, vacant_places, wConnecting, is_added, pending, appended, spawned,
                   backoffVars, first_delay_ms, delay_multiplier, failed_calls, call_delay,
                   refill_ret, stratFrame>>

\* conservative refill: add_session() in the calling thread, append_func
RefillInlAppend ==
    /\ fpc = "join"
    /\ inl = "ready"
    /\ inl' = "done"
    /\ appended' = appended + 1
    /\ is_added' = TRUE
    /\ UNCHANGED <<fpc, vacant_places, wConnecting, attempts, succeeded, pending, spawned,
                   backoffVars, first_delay_ms, delay_multiplier, failed_calls, call_delay,
                   refill_ret, stratFrame>>

\* every adder is joined: refill returns
RefillReturn ==
    /\ fpc = "join"
    /\ wConnecting = 0
    /\ pending = 0
    /\ inl \in {"none", "done"}
    /\ inl' = "none"
    /\ fpc' = "returned"
    /\ IF strategy = "greedy"
       THEN /\ refill_ret' = GreedyResult(vacant_places)
            /\ UNCHANGED <<backoffVars, failed_calls>>
       ELSE IF is_added
            THEN /\ current_delay_ms_' = 0
                 /\ refill_ret' = ConservativeResult(TRUE)
                 /\ failed_calls' = 0
                 /\ UNCHANGED wait_until_
            ELSE /\ \E rnd \in RefillRandVals :
                       current_delay_ms_' = NextDelay(current_delay_ms_, first_delay_ms,
                                                      delay_multiplier, rnd)
                 /\ wait_until_' = now + current_delay_ms_'
                 /\ refill_ret' = ConservativeResult(FALSE)
                 /\ failed_calls' = failed_calls + 1
    /\ is_added' = FALSE
    /\ UNCHANGED <<vacant_places, wConnecting, attempts, succeeded, pending, appended, spawned,
                   first_delay_ms, delay_multiplier, call_delay, stratFrame>>

\* the back-off elapses between two calls.  The strategy only compares now
\* with wait_until_, so the elapsed time is taken off wait_until_
RefillBackoffElapses ==
    /\ fpc \in {"returned", "skipped"}
    /\ now < wait_until_
    /\ wait_until_' = now
    /\ UNCHANGED <<fpc, vacant_places, wConnecting, inl, is_added, current_delay_ms_,
                   first_delay_ms, delay_multiplier, attempts, succeeded, pending, appended,
                   spawned, failed_calls, call_delay, refill_ret, stratFrame>>

RefillNext ==
    \/ \E v \in VacantValues : RefillCall(v)
    \/ RefillEnter
    \/ \E ok \in BOOLEAN : RefillAdderConnect(ok)
    \/ RefillAdderAppend
    \/ \E ok \in BOOLEAN : RefillInlConnect(ok)
    \/ RefillInlAppend
    \/ RefillReturn
    \/ RefillBackoffElapses

(***************************************************************************)
(* HTTP session: http::base_socket perform / send_request / recv_response  *)
(* over the stream's write_some / read_some with one deadline              *)
(***************************************************************************)
\* bytes of the serialized request and of the peer's response
ReqLen == MaxBuf
RespLen == MaxBuf
\* timeouts and deadlines handed to perform
HttpTimeouts == {0, TickMs, kInfiniteDuration}
HttpDeadlines == {now, now + TickMs, kTimePointMax}

HttpInit ==
    /\ hpc = "idle"
    /\ h_deadline = kTimePointMax
    /\ h_ec = "success"
    /\ h_result = "none"
    /\ h_sent = 0
    /\ h_wire = <<>>
    /\ h_parsed = 0
    /\ h_reads = 0
    /\ h_used = {}
    /\ h_send_ec = "success"
    /\ h_recv_ec = "success"
    /\ h_open = TRUE
    /\ h_fired = FALSE
    /\ p_state = "open"
    /\ p_avail = 0
    /\ p_delivered = 0
    /\ p_framed = TRUE
    /\ p_bad = 0

HttpIdle == HttpInit

\* what the HTTP session leaves alone
httpFrame == <<now, poolVars, sockVars, tlsVars, connVars, stratVars, logVars, moreVars>>

\* outcomes of async_write_some, by the state of the handle and of the peer
WriteOutcomes(open, peer) ==
    IF ~open THEN {"bad_descriptor"}
    ELSE IF peer = "reset" THEN {"connection_reset"} ELSE {"success"}

\* outcomes of async_read_some: data when the peer has sent some, eof once
\* it has closed, connection_reset once it has reset
ReadOutcomes(open, peer, avail) ==
    IF ~open THEN {"bad_descriptor"}
    ELSE IF avail > 0 THEN {"success"}
    ELSE IF peer = "closed" THEN {"eof"}
    ELSE IF peer = "reset" THEN {"connection_reset"} ELSE {}

\* response_parser.is_done() after put(): a response with Content-Length is
\* done at its last byte, one without only at end of stream
ParserDone(framed, parsed) == framed /\ parsed = RespLen

\* response_parser.got_some(): the parser has been given at least one byte
GotSome(parsed) == parsed > 0

\* response_parser.put(buffer.data(), ec) after `parsed` bytes, `bad` being
\* the position of the first byte the parser rejects (0 when there is none)
Put(framed, parsed, bad) ==
    IF bad # 0 /\ bad <= parsed THEN {"bad_version"}
    ELSE IF ParserDone(framed, parsed) THEN {"success"}
    ELSE {"success", "need_more"}

\* variant of LoopEnds: need_more ends the loop as well
LoopEndsOnAnyError(done, e) == done \/ e # "success"

\* recv_response: while (!response_parser.is_done()) with
\* if (ec && ec != need_more) break
LoopEnds(done, e) == done \/ e \notin {"success", "need_more"}

\* the serialized request: its bytes are numbered 1..ReqLen
SerializedRequest == [i \in 1..ReqLen |-> i]

\* serializer.next: the buffers handed to the visitor are the bytes after
\* the first `pos` ones
SerializerNext(pos) == SubSeq(SerializedRequest, pos + 1, ReqLen)

\* the n bytes write_some takes from the front of those buffers
Buffers(pos, n) == SubSeq(SerializerNext(pos), 1, n)

\* variant of Consume: the serializer is advanced by one byte per call
ConsumeOne(pos, n) == pos + 1

\* serializer.consume(n_bytes)
Consume(pos, n) == pos + n

\* serializer.is_done()
SerializerDone(pos) == pos >= ReqLen

\* response_parser.put_eof(ec)
PutEof(framed, parsed) ==
    IF framed /\ parsed < RespLen THEN "partial_message" ELSE "success"

\* variant of EofError: the eof of read_some is passed on
EofErrorRaw(got_some, framed, parsed) ==
    IF got_some THEN PutEof(framed, parsed) ELSE "eof"

\* recv_response on eof from read_some
EofError(got_some, framed, parsed) ==
    IF got_some THEN PutEof(framed, parsed) ELSE "end_of_stream"

\* perform: if (ec) return boost::none after send_request
PerformStopsAfterSendNever(e) == FALSE
PerformStopsAfterSend(e) == e # "success"

\* recv_response(ec, deadline): boost::none on error, parser.get() otherwise
RecvResult(e) == IF e # "success" THEN "none" ELSE "response"

\* perform(request, ec, deadline) starts send_request
PerformUntil(dl, framed) ==
    /\ hpc \in {"idle", "returned"}
    /\ hpc' = "send"
    /\ h_deadline' = dl
    /\ h_ec' = "success"
    /\ h_result' = "none"
    /\ h_sent' = 0
    /\ h_wire' = <<>>
    /\ h_parsed' = 0
    /\ h_reads' = 0
    /\ h_used' = {}
    /\ h_send_ec' = "success"
    /\ h_recv_ec' = "success"
    /\ h_fired' = FALSE
    /\ p_avail' = 0
    /\ p_delivered' = 0
    /\ p_framed' = framed
    /\ p_bad' = 0
    /\ UNCHANGED <<h_open, p_state, httpFrame>>

\* perform(request, ec, timeout): perform(request, ec, clock_type::now() + timeout)
PerformFor(d, framed) ==
    \E dl \in AddDuration(now, d) : PerformUntil(dl, framed)

\* send_request: serializer.next calls stream_.write_some(buffers, ec, deadline)
HttpWriteSome ==
    /\ hpc = "send"
    /\ hpc' = "write_some"
    /\ h_used' = h_used \cup {h_deadline}
    /\ h_fired' = FALSE
    /\ UNCHANGED <<h_deadline, h_ec, h_result, h_sent, h_wire, h_parsed, h_reads, h_send_ec, h_recv_ec,
                   h_open, peerVars, httpFrame>>

\* the timer armed for the pending write_some / read_some fires:
\* check_deadline runs the deadline actor
HttpTimer ==
    /\ hpc \in {"write_some", "read_some"}
    /\ h_deadline <= now
    /\ ~h_fired
    /\ h_fired' = TRUE
    /\ h_open' = DeadlineActor(h_open)
    /\ UNCHANGED <<hpc, h_deadline, h_ec, h_result, h_sent, h_wire, h_parsed, h_reads, h_used,
                   h_send_ec, h_recv_ec, peerVars, httpFrame>>

\* write_some returns the n bytes it wrote or an error; send_request consumes
\* the bytes reported and leaves its loop on an error or once the serializer
\* is done
HttpWriteDone(res, n) ==
    /\ hpc = "write_some"
    /\ res \in WriteOutcomes(h_open, p_state)
    /\ n \in 1..Len(SerializerNext(h_sent))
    /\ LET e == HandlerEc(h_fired, res)
           n_bytes == IF res = "success" THEN n ELSE 0
       IN  /\ h_ec' = e
           /\ h_wire' = h_wire \o Buffers(h_sent, n_bytes)
           /\ h_sent' = IF n_bytes # 0 THEN Consume(h_sent, n_bytes) ELSE h_sent
           /\ hpc' = IF e = "success" /\ ~SerializerDone(h_sent') THEN "send" ELSE "sent"
           /\ h_send_ec' = e
    /\ UNCHANGED <<h_deadline, h_result, h_parsed, h_reads, h_used, h_recv_ec, h_open, h_fired,
                   peerVars, httpFrame>>

\* perform after send_request returned
PerformAfterSend ==
    /\ hpc = "sent"
    /\ IF PerformStopsAfterSend(h_ec)
       THEN /\ hpc' = "returned"
            /\ h_result' = "none"
       ELSE /\ hpc' = "recv"
            /\ UNCHANGED h_result
    /\ UNCHANGED <<h_deadline, h_ec, h_sent, h_wire, h_parsed, h_reads, h_used, h_send_ec, h_recv_ec,
                   h_open, h_fired, peerVars, httpFrame>>

\* recv_response: stream_.read_some(*out_buff, ec, deadline)
HttpReadSome ==
    /\ hpc = "recv"
    /\ hpc' = "read_some"
    /\ h_reads' = h_reads + 1
    /\ h_used' = h_used \cup {h_deadline}
    /\ h_fired' = FALSE
    /\ UNCHANGED <<h_deadline, h_ec, h_result, h_sent, h_wire, h_parsed, h_send_ec, h_recv_ec, h_open,
                   peerVars, httpFrame>>

\* read_some returns; recv_response handles eof, commits the bytes and hands
\* them to the parser, which consumes all of them, and leaves its loop once
\* the parser is done or on an error other than need_more
HttpReadDone(res, n) ==
    /\ hpc = "read_some"
    /\ res \in ReadOutcomes(h_open, p_state, p_avail)
    /\ n \in 1..RespLen
    /\ LET e == HandlerEc(h_fired, res)
       IN  IF e = "success"
           THEN /\ n <= p_avail
                /\ p_avail' = p_avail - n
                /\ h_parsed' = h_parsed + n
                /\ h_ec' \in Put(p_framed, h_parsed', p_bad)
                /\ hpc' = IF LoopEnds(ParserDone(p_framed, h_parsed'), h_ec')
                          THEN "received" ELSE "recv"
           ELSE /\ n = 1
                /\ h_ec' = IF e = "eof" THEN EofError(GotSome(h_parsed), p_framed, h_parsed) ELSE e
                /\ hpc' = "received"
                /\ UNCHANGED <<p_avail, h_parsed>>
    /\ h_recv_ec' = IF hpc' = "received" THEN h_ec' ELSE h_recv_ec
    /\ UNCHANGED <<h_deadline, h_result, h_sent, h_wire, h_reads, h_used, h_send_ec, h_open, h_fired,
                   p_state, p_delivered, p_framed, p_bad, httpFrame>>

\* recv_response(ec, deadline) returns and perform returns its result
PerformReturn ==
    /\ hpc = "received"
    /\ hpc' = "returned"
    /\ h_result' = RecvResult(h_ec)
    /\ UNCHANGED <<h_deadline, h_ec, h_sent, h_wire, h_parsed, h_reads, h_used, h_send_ec, h_recv_ec,
                   h_open, h_fired, peerVars, httpFrame>>

\* the peer sends the next byte of its response, well-formed or not
PeerSends(bad) ==
    /\ hpc \notin {"idle", "returned"}
    /\ p_state = "open"
    /\ p_delivered < RespLen
    /\ p_delivered' = p_delivered + 1
    /\ p_avail' = p_avail + 1
    /\ p_bad' = IF bad /\ p_bad = 0 THEN p_delivered' ELSE p_bad
    /\ UNCHANGED <<hpc, h_deadline, h_ec, h_result, h_sent, h_wire, h_parsed, h_reads, h_used,
                   h_send_ec, h_recv_ec, h_open, h_fired, p_state, p_framed, httpFrame>>

\* the peer closes or resets the connection
PeerEnds(how) ==
    /\ hpc \notin {"idle", "returned"}
    /\ p_state = "open"
    /\ p_state' = how
    /\ UNCHANGED <<hpc, h_deadline, h_ec, h_result, h_sent, h_wire, h_parsed, h_reads, h_used,
                   h_send_ec, h_recv_ec, h_open, h_fired, p_avail, p_delivered, p_framed,
                   p_bad, httpFrame>>

\* the session is replaced by a newly connected one
HttpReconnect ==
    /\ hpc = "returned"
    /\ ~h_open \/ p_state # "open"
    /\ h_open' = TRUE
    /\ p_state' = "open"
    /\ hpc' = "idle"
    /\ UNCHANGED <<h_deadline, h_ec, h_result, h_sent, h_wire, h_parsed, h_reads, h_used, h_send_ec,
                   h_recv_ec, h_fired, p_avail, p_delivered, p_framed, p_bad, httpFrame>>

HttpProgress ==
    \/ HttpWriteSome
    \/ HttpTimer
    \/ \E res \in {"success", "connection_reset", "bad_descriptor"}, n \in 1..ReqLen :
          HttpWriteDone(res, n)
    \/ PerformAfterSend
    \/ HttpReadSome
    \/ \E res \in {"success", "eof", "connection_reset", "bad_descriptor"}, n \in 1..RespLen :
          HttpReadDone(res, n)
    \/ PerformReturn

HttpNext ==
    \/ \E dl \in HttpDeadlines, framed \in BOOLEAN : PerformUntil(dl, framed)
    \/ \E d \in HttpTimeouts, framed \in BOOLEAN : PerformFor(d, framed)
    \/ HttpProgress
    \/ \E bad \in BOOLEAN : PeerSends(bad)
    \/ \E how \in {"closed", "reset"} : PeerEnds(how)
    \/ HttpReconnect
    \/ Tick

(***************************************************************************)
(* The library logger: logger_instance, set_logger, set_log_level and the  *)
(* STREAM_LOG_* macros                                                     *)
(***************************************************************************)
\* enum class log_level : int
log_level == [mute |-> 0 - 1, trace |-> 0, debug |-> 1, info |-> 2, warning |-> 3, error |-> 4]
\* the levels a logger can be configured with
GateLevels == {log_level[n] : n \in DOMAIN log_level}
\* the levels of STREAM_LOG_TRACE .. STREAM_LOG_ERROR
MessageLevels == GateLevels \ {log_level.mute}

\* logger_instance(): a cout_logger with trace level until set_logger is called
LogInit ==
    /\ level_ = log_level.trace
    /\ logger_kind = "cout"
    /\ log_out = <<>>
    /\ last_level = log_level.mute
    /\ last_gate = log_level.trace
    /\ last_emitted = FALSE

LogIdle == LogInit

\* what the logger leaves alone
logFrame == <<now, poolVars, sockVars, tlsVars, connVars, stratVars, httpVars, moreVars>>

\* STREAM_LOG_CALL: if (logger && logger->get_level() <= level)
GateOpen(gate, level) == gate <= level

\* set_logger(level, log_func): a func_logger replaces the instance
SetLogger(l) ==
    /\ logger_kind' = "func"
    /\ level_' = l
    /\ UNCHANGED <<log_out, last_level, last_gate, last_emitted, logFrame>>

\* set_log_level(level)
SetLogLevel(l) ==
    /\ level_ # l
    /\ level_' = l
    /\ UNCHANGED <<logger_kind, log_out, last_level, last_gate, last_emitted, logFrame>>

\* STREAM_LOG_TRACE / DEBUG / INFO / WARN / ERROR
StreamLog(l) ==
    /\ Len(log_out) < MaxLog
    /\ last_level' = l
    /\ last_gate' = level_
    /\ last_emitted' = GateOpen(level_, l)
    /\ log_out' = IF GateOpen(level_, l) THEN Append(log_out, l) ELSE log_out
    /\ UNCHANGED <<level_, logger_kind, logFrame>>

LogNext ==
    \/ \E l \in GateLevels : SetLogger(l)
    \/ \E l \in GateLevels : SetLogLevel(l)
    \/ \E l \in MessageLevels : StreamLog(l)

\* the groups of variables no specification but their own changes
(***************************************************************************)
(* A session that is move-constructed from another one (the defaulted move *)
(* constructors of timed_base and base_socket)                             *)
(***************************************************************************)
MoveInit ==
    /\ handler_this = "session"
    /\ m_outcome = "none"

MoveIdle == MoveInit

\* what check_deadline does when its captured this is the moved-from object,
\* whose timer_ is null (or which has been destroyed): the behaviour is
\* undefined; the process faults, or the handler is lost without effect
StaleHandlerOutcomes == {"crashed", "lost"}

\* timed_base(timed_base&&) = default and base_socket(base_socket&&) = default:
\* io_service_, timer_ and the socket go to the new object, deadline_fired_
\* is copied; the wait posted by the constructor of the moved-from object
\* stays queued with its captured this.  The session variables denote the
\* moved-to object from here on.
SockMove ==
    /\ spc = "idle"
    /\ ~pooled
    /\ handler_this = "session"
    /\ handler_this' = "moved_from"
    /\ UNCHANGED <<now, poolVars, sockVars, tlsVars, connVars, stratVars, httpVars, logVars,
                   m_outcome, allocVars>>

\* run_one() runs the wait handler during an operation of the moved-to
\* session: this->check_deadline(ec) with this the moved-from object
MovedTimer(o) ==
    /\ spc = "pending"
    /\ handler_this = "moved_from"
    /\ m_outcome = "none"
    /\ timerQueued \/ expires_at_ <= now
    /\ o \in StaleHandlerOutcomes
    /\ m_outcome' = o
    /\ spc' = IF o = "crashed" THEN "crashed" ELSE spc
    /\ timerQueued' = FALSE
    /\ UNCHANGED <<now, s_open, expires_at_, deadline_fired_, s_op, s_ec, transfered_bytes,
                   toSend, setup_expiration, handlerExp, opDeadline, s_ret, closeRet, actorRan,
                   pooled, s_overload, s_timeout, thrown, handler_this, poolVars, tlsVars,
                   connVars, stratVars, httpVars, logVars, allocVars>>

MoveNext ==
    \/ SockNext
    \/ SockMove
    \/ \E o \in StaleHandlerOutcomes : MovedTimer(o)

(***************************************************************************)
(* The HTTP receive arena: detail::static_pool shared by the copies of a   *)
(* detail::static_allocator                                                *)
(***************************************************************************)
\* most allocator objects alive at once, and the largest block
MaxAllocs == 3
MaxArena == 5

AllocInit ==
    /\ a_state = "none"
    /\ a_size = 0
    /\ a_refs = 0
    /\ a_count = 0
    /\ a_p = 0
    /\ a_live = 0
    /\ a_bad_alloc = FALSE

AllocIdle == AllocInit

allocFrame == <<now, poolVars, sockVars, tlsVars, connVars, stratVars, httpVars, logVars,
                moveVars>>

\* static_pool::share(): ++refs_
Share(refs) == (refs + 1) % Pow2(SizeBits)

\* variant of Destroy: if (--refs_) return
DestroyPreDecrement(refs) ==
    [refs |-> (refs + Pow2(SizeBits) - 1) % Pow2(SizeBits),
     freed |-> (refs + Pow2(SizeBits) - 1) % Pow2(SizeBits) = 0]

\* static_pool::destroy(): if (refs_--) return; otherwise the block is freed
Destroy(refs) ==
    [refs |-> (refs + Pow2(SizeBits) - 1) % Pow2(SizeBits), freed |-> refs = 0]

\* static_allocator(size): static_pool::construct(size), refs_ = 1
AllocConstruct(size) ==
    /\ a_state = "none"
    /\ a_state' = "allocated"
    /\ a_size' = size
    /\ a_refs' = 1
    /\ a_count' = 0
    /\ a_p' = 0
    /\ a_live' = 1
    /\ UNCHANGED <<a_bad_alloc, allocFrame>>

\* static_allocator(const static_allocator&): pool_(&other.pool_->share())
AllocCopy ==
    /\ a_state = "allocated"
    /\ a_live >= 1
    /\ a_live < MaxAllocs
    /\ a_refs' = Share(a_refs)
    /\ a_live' = a_live + 1
    /\ UNCHANGED <<a_state, a_size, a_count, a_p, a_bad_alloc, allocFrame>>

\* ~static_allocator(): pool_->destroy()
AllocDestroy ==
    /\ a_state = "allocated"
    /\ a_live >= 1
    /\ a_live' = a_live - 1
    /\ a_refs' = Destroy(a_refs).refs
    /\ a_state' = IF Destroy(a_refs).freed THEN "freed" ELSE a_state
    /\ UNCHANGED <<a_size, a_count, a_p, a_bad_alloc, allocFrame>>

\* allocate(n): static_pool::alloc(n * sizeof(T))
Allocate(n) ==
    /\ a_state = "allocated"
    /\ a_live >= 1
    /\ IF a_p + n >= a_size
       THEN a_bad_alloc' = TRUE /\ UNCHANGED <<a_count, a_p>>
       ELSE /\ a_bad_alloc' = FALSE
            /\ a_count' = a_count + 1
            /\ a_p' = a_p + n
    /\ UNCHANGED <<a_state, a_size, a_refs, a_live, allocFrame>>

\* deallocate(p, n): static_pool::dealloc() of a block handed out before
Deallocate ==
    /\ a_state = "allocated"
    /\ a_live >= 1
    /\ a_count >= 1
    /\ a_count' = a_count - 1
    /\ a_p' = IF a_count' # 0 THEN a_p ELSE 0
    /\ UNCHANGED <<a_state, a_size, a_refs, a_live, a_bad_alloc, allocFrame>>

AllocNext ==
    \/ \E size \in 2..MaxArena : AllocConstruct(size)
    \/ AllocCopy
    \/ AllocDestroy
    \/ \E n \in 1..MaxArena : Allocate(n)
    \/ Deallocate

MoreIdle == MoveIdle /\ AllocIdle

ExtIdle == StratIdle /\ HttpIdle /\ LogIdle /\ MoreIdle

RefillSpecInit ==
    now = 0 /\ StratInit /\ SockIdle /\ TlsIdle /\ ConnIdle /\ HttpIdle /\ LogIdle /\ MoreIdle

RefillSpec == RefillSpecInit /\ [][RefillNext]_vars

HttpSpecInit ==
    now = 0 /\ PoolIdle /\ SockIdle /\ TlsIdle /\ ConnIdle /\ StratIdle /\ HttpInit /\ LogIdle
    /\ MoreIdle

HttpSpec == HttpSpecInit /\ [][HttpNext]_vars

\* run_one() keeps running handlers while a call is pending, callers carry
\* on, and time passes
HttpLiveSpec == HttpSpec /\ WF_vars(HttpProgress) /\ WF_vars(Tick)

LogSpecInit ==
    now = 0 /\ PoolIdle /\ SockIdle /\ TlsIdle /\ ConnIdle /\ StratIdle /\ HttpIdle /\ LogInit
    /\ MoreIdle

LogSpec == LogSpecInit /\ [][LogNext]_vars

MoveSpecInit ==
    /\ now = 0 /\ PoolIdle /\ SockInit /\ TlsIdle /\ ConnIdle /\ StratIdle /\ HttpIdle /\ LogIdle
    /\ MoveInit /\ AllocIdle

MoveSpec == MoveSpecInit /\ [][MoveNext]_vars

AllocSpecInit ==
    /\ now = 0 /\ PoolIdle /\ SockIdle /\ TlsIdle /\ ConnIdle /\ StratIdle /\ HttpIdle /\ LogIdle
    /\ MoveIdle /\ AllocInit

AllocSpec == AllocSpecInit /\ [][AllocNext]_vars

(***************************************************************************)
(* Specifications                                                          *)
(***************************************************************************)
Init == now = 0 /\ PoolInit /\ SockIdle /\ TlsIdle /\ ConnIdle /\ ExtIdle

Next == CallerNext \/ WatcherNext \/ Tick

Spec == Init /\ [][Next]_vars

\* the serial borrow / return pattern of the pool test: one caller thread,
\* which owns at most one session at a time
SerialClient == "c1"
SerialNext == CallerActs(SerialClient) \/ WatcherNext \/ Tick

SerialSpec == Init /\ [][SerialNext]_vars

\* the serial pattern with one error_code variable handed to every call
ReuseNext ==
    \/ SerialNext
    \/ \E op \in {"get", "try"}, dl \in GetDeadlines : GetStartReusing(SerialClient, op, dl)

ReuseSpec == Init /\ [][ReuseNext]_vars

\* a pool that is used by one thread and then destroyed
UserActs == dpc = "none" /\ CallerActs(SerialClient)

WatcherThread == WatcherNext \/ WatchExit \/ WatchSleepElapses

DestroyNext == UserActs \/ WatcherThread \/ DtorStart \/ DtorJoin \/ Tick

\* the watcher, its adders and the destroying thread are scheduled whenever
\* they can take a step, every new_session call returns, and the clock advances
DestroySpec ==
    /\ Init
    /\ [][DestroyNext]_vars
    /\ WF_vars(WatcherThread)
    /\ WF_vars(DtorJoin)
    /\ WF_vars(Tick)

\* threads blocked in get_session and is_connected, the watcher and its adders
WaitNext == (\E c \in Callers : WaiterActs(c)) \/ WatcherNext \/ Tick

WaitSpec == Init /\ [][WaitNext]_vars

\* a peer that accepts every connection: new_session always succeeds
AcceptingWatcherNext ==
    \/ WatchLock
    \/ WatchEvict
    \/ WatchRefill
    \/ AdderConnect(TRUE)
    \/ \E sid \in wReady : AdderLock(sid)
    \/ AdderAppend
    \/ InlConnect(TRUE)
    \/ InlLock
    \/ InlAppend
    \/ WatchJoin
    \/ WatchWake

\* no session is borrowed: the only caller asks is_connected
LiveNext == ProbeActs(SerialClient) \/ AcceptingWatcherNext \/ Tick

\* the watcher, its adders and the caller are threads the scheduler runs
\* whenever they can take a step, and the clock advances
LiveSpec ==
    /\ Init
    /\ [][LiveNext]_vars
    /\ WF_vars(AcceptingWatcherNext)
    /\ WF_vars(ProbeProgress(SerialClient))
    /\ WF_vars(Tick)

\* a stream or datagram session and a TLS session whose owners call close()
CloseNext ==
    \/ SockNext
    \/ \E shut \in {"success", "stream_truncated", "connection_reset", "bad_descriptor"} :
          TlsClose(shut)

CloseSpecInit == now = 0 /\ PoolIdle /\ SockInit /\ TlsInit /\ ConnIdle /\ ExtIdle

CloseSpec == CloseSpecInit /\ [][CloseNext]_vars

SockSpecInit == now = 0 /\ PoolIdle /\ SockInit /\ TlsIdle /\ ConnIdle /\ ExtIdle

SockSpec == SockSpecInit /\ [][SockNext]_vars

TlsSpecInit == now = 0 /\ PoolIdle /\ SockIdle /\ TlsInit /\ ConnIdle /\ ExtIdle

TlsSpec == TlsSpecInit /\ [][TlsNext]_vars

TlsCallSpec == TlsSpecInit /\ [][TlsCallNext]_vars

\* the connector with its worker and the threads calling new_session
ConnSpecInit == now = 0 /\ PoolIdle /\ SockIdle /\ TlsIdle /\ ConnInit /\ ExtIdle

ConnSpec == ConnSpecInit /\ [][ConnNext]_vars

\* the same under fair scheduling: the worker thread and every thread inside
\* new_session keep running, and time advances
ConnLiveSpec ==
    /\ ConnSpecInit
    /\ [][ConnNext]_vars
    /\ WF_vars(ResolveRoutine)
    /\ \A c \in ConnClients : WF_vars(NsProgress(c))
    /\ WF_vars(Tick)

\* the watcher of a pool whose peer is unavailable: every new_session()
\* throws, while threads ask is_connected()
DownNext ==
    \/ \E c \in Callers : ProbeActs(c)
    \/ WatchLock
    \/ WatchEvict
    \/ WatchRefill
    \/ AdderConnect(FALSE)
    \/ InlConnect(FALSE)
    \/ WatchJoin
    \/ WatchWake
    \/ Tick

DownSpec == Init /\ [][DownNext]_vars

(***************************************************************************)
(* Properties                                                              *)
(***************************************************************************)
\* sessions owned by callers
CheckedOut == {c \in Callers : held[c] # nullptr}
Range(f) == {f[i] : i \in DOMAIN f}

\* C1: the number of entries in the pool never exceeds max + 1, also with
\* several callers holding borrowed sessions at the same time
C1_PoolSizeAtMostMaxPlusOne == Len(sesson_pool_) <= pool_max_size_ + 1

\* C2: with one caller that borrows and returns serially, pooled plus checked
\* out sessions never exceed size + 1, under both strategies
C2_SerialLiveSessionsBound ==
    Len(sesson_pool_) + Cardinality(CheckedOut) <= pool_max_size_ + 1

\* a refill has topped the pool up while the serial caller owns a session
C2_Witness ==
    /\ held[SerialClient] # nullptr
    /\ Len(sesson_pool_) = pool_max_size_
    /\ cop[SerialClient] = "get"

\* C3: entries are delivered in insertion order: the pool only grows at its
\* back, removals keep the order of the remaining entries, and a session a
\* caller receives is the one at the front of the pool
C3_FifoDelivery ==
    [][ /\ Len(sesson_pool_') > Len(sesson_pool_) =>
              SubSeq(sesson_pool_', 1, Len(sesson_pool_)) = sesson_pool_
        /\ Len(sesson_pool_') <= Len(sesson_pool_) =>
              sesson_pool_' = SelectSeq(sesson_pool_, LAMBDA e : e \in Range(sesson_pool_'))
        /\ \A c \in Callers :
              (held'[c] # nullptr /\ held'[c] # held[c]) =>
                  /\ sesson_pool_ # <<>>
                  /\ held'[c] = Head(sesson_pool_).sid
                  /\ sesson_pool_' = Tail(sesson_pool_)
      ]_vars

\* a caller has received a session while a younger entry stays in the pool
C3_Witness ==
    \E c \in Callers :
        /\ cop[c] \in {"get", "try"}
        /\ cpc[c] = "idle"
        /\ held[c] # nullptr
        /\ sesson_pool_ # <<>>
        /\ now > Head(sesson_pool_).ts

\* a step in which a get_session call of caller c returns
GetReturns(c) ==
    /\ cop'[c] = "get"
    /\ cpc'[c] = "idle"
    /\ \/ cpc[c] # "idle"
       \/ <<cop[c], held[c], ec[c]>> # <<cop'[c], held'[c], ec'[c]>>

\* C4: get_session returns a session removed from the front of the pool, or
\* null with timed_out when the mutex was owned by another thread at the
\* deadline, or null with not_found when the mutex was taken and the pool was
\* still empty at the deadline; never null without one of the two errors
C4_GetSessionOutcomes ==
    [][ \A c \in Callers : GetReturns(c) =>
          \/ /\ held'[c] # nullptr
             /\ sesson_pool_ # <<>>
             /\ held'[c] = Head(sesson_pool_).sid
             /\ sesson_pool_' = Tail(sesson_pool_)
          \/ /\ held'[c] = nullptr
             /\ ec'[c] = "timed_out"
             /\ pool_mutex_ # "none"
             /\ now >= deadline[c]
             /\ sesson_pool_' = sesson_pool_
          \/ /\ held'[c] = nullptr
             /\ ec'[c] = "not_found"
             /\ pool_mutex_ = "none"
             /\ sesson_pool_ = <<>>
             /\ now >= deadline[c]
             /\ sesson_pool_' = sesson_pool_
      ]_vars

\* one get_session call has returned timed_out and another one not_found
C4_Witness ==
    \E c, d \in Callers :
        /\ cop[c] = "get" /\ cpc[c] = "idle" /\ held[c] = nullptr /\ ec[c] = "timed_out"
        /\ cop[d] = "get" /\ cpc[d] = "idle" /\ held[d] = nullptr /\ ec[d] = "not_found"

\* C5: no pool entry is null or has a closed handle, and a return_session call
\* given a null or closed session leaves the pool unchanged, wakes nobody and
\* leaves the session with the caller
C5_ReturnRejectsClosed ==
    [][ /\ \A i \in DOMAIN sesson_pool_' :
              sesson_pool_'[i].sid # nullptr /\ sesson_pool_'[i].sid \notin closed'
        /\ \A c \in Callers :
              (/\ cpc[c] = "idle"
               /\ cop[c] # "ret"
               /\ cop'[c] = "ret"
               /\ (held[c] = nullptr \/ held[c] \in closed)) =>
                  /\ sesson_pool_' = sesson_pool_
                  /\ waiting' = waiting
                  /\ cpc' = cpc
                  /\ held' = held
      ]_vars

\* a closed session was handed to return_session while a caller waits for one
C5_Witness ==
    \E c \in Callers :
        /\ cop[c] = "ret"
        /\ cpc[c] = "idle"
        /\ held[c] \in closed
        /\ waiting # {}
        /\ sesson_pool_ = <<>>

\* C6: whenever close() of a stream session returns success the handle is
\* closed
C6_CloseSuccessClosesHandle ==
    (s_op = "close" /\ closeRet = "success") => ~s_open

\* C7: once the timer has fired during an operation the handle is closed and
\* stays closed, the operation returns timed_out, no later operation
\* succeeds, and return_session does not pool the session
C7_TimeoutClosesSession ==
    /\ (deadline_fired_ /\ spc = "idle" /\ s_op \in SockOps) => s_ret = "timed_out"
    /\ actorRan => /\ ~s_open
                   /\ ~pooled
                   /\ (spc = "idle" /\ s_op \in SockOps) => s_ret # "success"

\* the timer has fired, the operation has returned and the session was
\* handed to return_session
C7_Witness ==
    /\ actorRan
    /\ s_ret = "timed_out"
    /\ s_op = "return_session"
    /\ ~pooled

\* C8: while a send / receive started with a finite expiration is pending and
\* the timer has not fired, the timer is armed at that expiration, also after
\* a reissue
C8_TimerStaysArmed ==
    (/\ spc = "pending"
     /\ Reissues(s_op)
     /\ ~deadline_fired_
     /\ opDeadline # kTimePointMax) => expires_at_ = opDeadline

\* C9: a TLS send / receive that ends with success has transferred exactly the
\* bytes of the buffer, each once and in order
C9_TlsTransfersBufferOnce ==
    (tpc = "idle" /\ t_op \in TlsOps /\ t_ec = "success") =>
        /\ t_transfered = bufSize
        /\ t_op = "send" => wire = Iota(bufSize)
        /\ t_op = "receive" => rbuf = Iota(bufSize)

\* C10: a TLS call started with the infinite duration never fails with
\* timed_out
C10_InfiniteNeverTimesOut ==
    t_timeout = kInfiniteDuration => t_ec # "timed_out"

\* C11: a socket call given a duration below the resolution has failed with
\* timed_out without starting I/O, and the failure is in the error_code for
\* an overload that takes one and an exception only for a throwing overload
C11_SubResolutionTimesOut ==
    (s_op \in SockOps /\ s_timeout # -1 /\ BelowResolution(s_timeout)) =>
        /\ spc = "idle"
        /\ s_ret = "timed_out"
        /\ s_overload = "ec" => (~thrown /\ s_ec = "timed_out")
        /\ s_overload = "throwing" => thrown

\* C12: with a finite idle timeout, the eviction step of a watcher pass that
\* holds the pool mutex leaves no entry that has been pooled for idle_timeout_
\* or longer, keeps every younger entry, and the evicted sessions exist
\* nowhere afterwards, so no later get_session can deliver them
C12_IdleEntriesEvicted ==
    [][ (wpc = "evict" /\ wpc' # "evict" /\ idle_timeout_ # kInfiniteDuration) =>
          /\ \A i \in DOMAIN sesson_pool_' : now' - sesson_pool_'[i].ts < idle_timeout_
          /\ \A e \in Range(sesson_pool_) :
                IF now - e.ts >= idle_timeout_
                THEN e.sid \notin Live'
                ELSE e \in Range(sesson_pool_')
      ]_vars

\* a watcher pass holds the mutex while an entry as old as the idle timeout
\* and a younger one are pooled
C12_Witness ==
    /\ wpc = "evict"
    /\ pool_mutex_ = "watcher"
    /\ idle_timeout_ # kInfiniteDuration
    /\ \E e \in Range(sesson_pool_) : now - e.ts >= idle_timeout_
    /\ \E e \in Range(sesson_pool_) : now - e.ts < idle_timeout_

C14_AddWakesAllWaiters ==
    [][ Len(sesson_pool_') > Len(sesson_pool_) => waiting' = {} ]_vars

\* the errors a close() of an already closed session may report
ClosedCloseResults == {"success", "bad_descriptor"}

\* C15: every close() of a stream, datagram or TLS session has returned
\* success or bad_descriptor (statement about the returned codes)
C15_CloseReturnsSuccessOrBadDescriptor ==
    /\ s_op \in {"close", "base_close"} => closeRet \in ClosedCloseResults
    /\ t_op = "close" => t_ec \in ClosedCloseResults

\* C15 as amended: no close() reopens the handle; a close() of a session
\* whose handle is already closed returns success or bad_descriptor and
\* leaves it closed; a close() of an open session returns success or, for
\* TLS, connection_reset from the shutdown, which leaves the handle open
C15_CloseIdempotentAmended ==
    [][ /\ (s_op' \in {"close", "base_close"} /\ <<s_op, s_open, closeRet>> # <<s_op', s_open', closeRet'>>) =>
              /\ s_open' => s_open
              /\ closeRet' \in ClosedCloseResults
        /\ (\E shut \in SslShutdownOutcomes(t_open) : TlsClose(shut)) =>
              /\ t_open' => t_open
              /\ ~t_open => t_ec' \in ClosedCloseResults
              /\ t_open => t_ec' \in {"success", "connection_reset"}
              /\ t_ec' = "connection_reset" => t_open'
      ]_vars

\* a TLS session was closed twice: the second close() found the handle closed
C15_Witness ==
    /\ t_op = "close"
    /\ ~t_open
    /\ t_ec = "bad_descriptor"
    /\ s_op = "close"
    /\ ~s_open
    /\ closeRet = "bad_descriptor"

\* C16: the worker's first resolve is pending from construction on and ends
\* with "done" set, whether it succeeds or fails; a new_session call waiting
\* on the empty cache stops waiting
C16_FirstResolveSetsDone ==
    /\ <>resolve_done_
    /\ [](~resolve_done_ =>
             \/ rpc = "wait" /\ resolve_needed_
             \/ rpc \in {"resolving", "update", "publish_done"})
    /\ \A c \in ConnClients : (npc[c] = "wait_done") ~> (npc[c] # "wait_done")
C16_Witness ==
    \E c \in ConnClients :
        /\ npc[c] = "ret" /\ n_ec[c] = "host_not_found"
        /\ resolve_done_ /\ endpoints_ = <<>>
        /\ now < n_until[c]

C18_FailedAttemptRequestsRefresh ==
    /\ [][\A c \in ConnClients :
             (npc[c] = "failed" /\ npc'[c] # "failed") => resolve_needed_']_vars
    /\ [](refresh_requests > 0 => resolve_needed_)
    /\ resolve_needed_ ~> (rpc = "resolving")
C18_Witness ==
    /\ rpc \in {"resolving", "sleep"}
    /\ resolve_done_
    /\ resolve_needed_
    /\ \E c \in ConnClients : npc[c] \in {"wait_done", "ret"} /\ n_ec[c] = "connection_refused"

\* C19: the cache always holds the list published last, a reader's copy is a
\* complete list of the resolver, and new_session connects to an endpoint of
\* its copy
CompleteLists == ResolveLists \cup {<<>>}
C19_CacheReplacedAsAWhole ==
    /\ endpoints_ = published
    /\ \A c \in ConnClients :
          /\ n_list[c] \in CompleteLists
          /\ npc[c] \in {"construct", "connecting", "failed"}
                => n_target[c] \in {n_list[c][i] : i \in DOMAIN n_list[c]}
C19_Witness ==
    /\ rpc = "update"
    /\ new_endpoints # <<>>
    /\ Len(new_endpoints) < Len(resolved)
    /\ endpoints_ # <<>>
    /\ \E c \in ConnClients : npc[c] = "construct" /\ n_list[c] = endpoints_

\* C20: a new_session call that reports no error returns a non-null session
\* whose handle is open; the throwing overload returns such a session or
\* throws, and never returns null without throwing
NsReturned(c) == npc[c] = "idle" /\ n_overload[c] # "none"
C20_NoErrorMeansOpenSession ==
    \A c \in ConnClients :
        NsReturned(c) =>
            /\ (n_overload[c] # "throwing" /\ n_ec[c] = "success")
                   => (n_session[c] # nullptr /\ n_open[c])
            /\ (n_overload[c] = "throwing" /\ ~n_thrown[c])
                   => (n_session[c] # nullptr /\ n_open[c])
C20_Witness ==
    \E c \in ConnClients :
        /\ NsReturned(c) /\ n_overload[c] = "throwing" /\ ~n_thrown[c]
        /\ n_session[c] # nullptr /\ n_open[c]

\* C21: in the conservative strategy, after k >= 1 consecutive refill calls
\* that added nothing, the back-off delay is at most
\* min(initial_delay * multiplier^k, 10 s), whatever the initial delay, the
\* multiplier >= 1 and the random factors drawn
C21_BackoffBounded ==
    (strategy = "conservative" /\ failed_calls >= 1)
        => current_delay_ms_ <= Min(first_delay_ms * (delay_multiplier ^ failed_calls),
                                    kMaxBackoffMs)

\* two failed calls in a row grew the delay by the multiplier, and a delay
\* was cut at 10 s
C21_Witness ==
    /\ strategy = "conservative"
    /\ fpc = "returned"
    /\ failed_calls = 2
    /\ delay_multiplier > 1
    /\ \/ first_delay_ms > 0 /\ current_delay_ms_ = first_delay_ms * delay_multiplier
       \/ first_delay_ms > kMaxBackoffMs /\ current_delay_ms_ = kMaxBackoffMs

\* ceil(vacant / 3)
CeilThird(vacant) == (vacant + 2) \div 3

C23_ConservativeResult ==
    [][(strategy = "conservative" /\ fpc = "join" /\ fpc' = "returned") =>
          /\ refill_ret' <=> appended > 0
          /\ refill_ret' => current_delay_ms_' = 0
          /\ (attempts >= 1 /\ succeeded = 0) =>
                (~refill_ret' /\ wait_until_' = now + current_delay_ms_')]_vars

\* a call that found a back-off in place appended a session, returned true
\* and left the back-off at zero
C23_Witness ==
    /\ strategy = "conservative"
    /\ fpc = "returned"
    /\ refill_ret
    /\ appended >= 1
    /\ call_delay > 0
    /\ current_delay_ms_ = 0

\* C24: after a conservative refill call that failed, every call that is not
\* skipped makes exactly one attempt, until an attempt succeeds: no adder
\* thread is spawned while the last call that ran added nothing
C24_OneAttemptAfterFailure ==
    (strategy = "conservative" /\ failed_calls >= 1 /\ fpc = "join")
        => (spawned = 0 /\ attempts <= 1)

ResponseIncomplete == p_state = "open" /\ p_bad = 0 /\ ~(p_framed /\ p_delivered = RespLen)

\* C26: perform runs send_request and then recv_response under the one
\* deadline it was given: when send_request fails perform returns no response
\* with that error and has read nothing from the stream; otherwise its error
\* and result are those of recv_response; and when the timer fires at the
\* deadline, as it does while the peer has not completed its response,
\* perform returns timed_out and no response
C26_PerformSendsThenReceives ==
    /\ [](h_used \subseteq {h_deadline})
    /\ [](hpc = "returned" =>
            /\ h_send_ec # "success" =>
                  (h_result = "none" /\ h_ec = h_send_ec /\ h_reads = 0)
            /\ h_send_ec = "success" =>
                  (h_ec = h_recv_ec /\ (h_result = "response" <=> h_recv_ec = "success"))
            /\ h_fired => (h_ec = "timed_out" /\ h_result = "none")
            /\ (ResponseIncomplete /\ h_send_ec # "bad_descriptor") =>
                  (h_ec = "timed_out" /\ h_result = "none"))
    /\ ((hpc \notin {"idle", "returned"} /\ h_deadline <= MaxTime) ~> hpc = "returned")

\* the request was sent, part of the response was read, and perform returned
\* timed_out after the deadline with the rest outstanding
C26_Witness ==
    /\ hpc = "returned"
    /\ h_send_ec = "success"
    /\ h_reads >= 2
    /\ h_parsed >= 1
    /\ ResponseIncomplete
    /\ now >= h_deadline
    /\ h_ec = "timed_out"
    /\ h_result = "none"

\* C27: a STREAM_LOG_* call hands its message to the logger exactly when the
\* message's level is at least the configured level in the order
\* trace < debug < info < warning < error, and not at all while the
\* configured level is mute
C27_EmitGate ==
    last_level # log_level.mute =>
        (last_emitted <=> (last_gate # log_level.mute /\ last_level >= last_gate))

\* C28: a watcher pass in which no session was appended is followed by the
\* 50 ms sleep before the next pass, with either strategy: while every
\* new_session() fails, each pass that called refill ends in the sleep
C28_SleepAfterEmptyPass ==
    [][(wpc = "join" /\ wpc' # "join") => wpc' = "sleep"]_vars

RetAppended(c) ==
    /\ sesson_pool_' = Append(sesson_pool_, [ts |-> now, sid |-> held[c]])
    /\ held'[c] = nullptr
    /\ waiting' = {}
    /\ \A x \in waiting : cpc'[x] = "relock"

\* return_session of caller c gave up on the mutex after its 1 ms
RetGaveUp(c) ==
    /\ pool_mutex_ # "none"
    /\ now >= deadline[c]
    /\ sesson_pool_' = sesson_pool_
    /\ waiting' = waiting
    /\ \A x \in Callers \ {c} : cpc'[x] = cpc[x]

\* C30: return_session with an open session either appends it at the back
\* of the pool with the current timestamp and notifies all waiters or, when
\* the mutex was not locked within 1 ms, leaves the pool and the waiters as
\* they were without pooling the session; it waits for the mutex no longer
\* than that
C30_ReturnSessionOutcomes ==
    /\ [][\A c \in Callers :
            /\ (cpc[c] = "idle" /\ cop'[c] = "ret" /\ cpc'[c] = "idle"
                   /\ held[c] # nullptr /\ held[c] \notin closed /\ held'[c] # held[c])
                  => RetAppended(c)
            /\ (cop[c] = "ret" /\ cpc[c] = "lock" /\ cpc'[c] # "lock")
                  => (cpc'[c] = "idle" /\ (RetAppended(c) \/ RetGaveUp(c)))
            /\ (cpc[c] = "idle" /\ cop'[c] = "ret" /\ cpc'[c] = "lock")
                  => (pool_mutex_ # "none" /\ deadline'[c] = now + kReturnLockMs)
         ]_vars
    /\ [](\A c \in Callers :
            (cop[c] = "ret" /\ cpc[c] = "lock" /\ now >= deadline[c])
                => ENABLED (RetLocked(c) \/ LockTimeout(c)))

\* a return_session call gave up on the mutex: the open session is still with
\* the caller and the pool was left alone
C30_Witness ==
    \E c \in Callers :
        /\ cop[c] = "ret"
        /\ cpc[c] = "idle"
        /\ held[c] # nullptr
        /\ held[c] \notin closed
        /\ pool_mutex_ # "none"

\* a get_session or try_get_session call of caller c returns in this step
GetOrTryReturns(c) ==
    /\ cop'[c] \in {"get", "try"}
    /\ cpc'[c] = "idle"
    /\ \/ cpc[c] # "idle"
       \/ <<cop[c], held[c], ec[c]>> # <<cop'[c], held'[c], ec'[c]>>

\* C31: when get_session(ec, deadline) or try_get_session(ec, deadline)
\* returns, ec reports an error exactly when the returned pointer is null,
\* whatever value ec held before the call
C31_EcIffNull ==
    [][ \A c \in Callers : GetOrTryReturns(c) =>
            ((ec'[c] # "success") <=> (held'[c] = nullptr)) ]_vars

\* a read_some call made by recv_response returns in this step
ReadSomeReturns == hpc = "read_some" /\ hpc' # "read_some"

\* read_some reports end of stream: the handle is open, the timer has not
\* fired, the peer has closed and nothing is left to read
EofReported == h_open /\ ~h_fired /\ p_state = "closed" /\ p_avail = 0

\* C32: when read_some reports end of stream, recv_response fails with
\* end_of_stream if the parser has been given no byte yet, and otherwise ends
\* with the verdict of put_eof (partial_message for an incomplete framed
\* response, success otherwise); eof itself is never the error of the call,
\* and the loop ends exactly when the parser is done or an error other than
\* need_more occurred
C32_RecvHandlesEof ==
    [][ ReadSomeReturns =>
          /\ EofReported =>
                /\ hpc' = "received"
                /\ h_parsed = 0 => h_ec' = "end_of_stream"
                /\ h_parsed > 0 =>
                      h_ec' = IF p_framed /\ h_parsed < RespLen
                              THEN "partial_message" ELSE "success"
          /\ h_ec' # "eof"
          /\ hpc' = "received" <=>
                \/ ParserDone(p_framed, h_parsed')
                \/ EofReported /\ h_parsed > 0 /\ h_ec' = "success"
                \/ h_ec' \notin {"success", "need_more"}
      ]_vars

\* the peer closed after a part of a framed response: perform returned
\* partial_message
C32_Witness ==
    /\ hpc = "returned"
    /\ p_state = "closed"
    /\ h_parsed > 0
    /\ h_parsed < RespLen
    /\ h_recv_ec = "partial_message"
    /\ h_result = "none"

\* a write_some call made by send_request returns in this step
WriteSomeReturns == hpc = "write_some" /\ hpc' # "write_some"

\* C33: send_request advances the serializer by the number of bytes each
\* write_some wrote, leaves its loop at the first error, and when it succeeds
\* the stream has received the serialized request, each byte once and in order
C33_SendWritesRequestOnce ==
    /\ [][ WriteSomeReturns =>
             /\ h_sent' - h_sent = Len(h_wire') - Len(h_wire)
             /\ h_ec' # "success" => hpc' = "sent"
         ]_vars
    /\ []((hpc \notin {"idle", "send", "write_some"} /\ h_send_ec = "success") =>
             h_wire = SerializedRequest)
    /\ [](h_wire = SubSeq(SerializedRequest, 1, Len(h_wire)))

\* a partial write has been consumed and the loop goes on with the rest
C33_Witness ==
    /\ hpc = "send"
    /\ h_sent > 0
    /\ h_sent < ReqLen
    /\ h_wire = SubSeq(SerializedRequest, 1, h_sent)

\* a handshake, write_some or read_some call of the TLS session is left in
\* this step, by return or by exception
TlsCallLeaves == tpc \in {"scope", "some"} /\ tpc' = "idle"

\* C34: every TLS handshake, write_some and read_some call leaves the
\* I/O-timeout-enabled flag as it was before the call, on success, on an
\* error in ec and on a timeout thrown while the timed scope is opened
C34_IoTimeoutFlagRestored ==
    [][ TlsCallLeaves => io_timeouted_' = orig_io_timeout_mode ]_vars

\* no refill worker is running
NoAdder == wConnecting = 0 /\ wReady = {} /\ adderSid = nullptr /\ inl \in {"none", "done"}

\* C35: the destructor clears watch_pool_ and joins the watcher: the watcher
\* begins no pass after the one it is in and exits, the destructor returns
\* when every new_session call returns, and once it has returned the watcher
\* and its workers are gone and nothing is appended to the pool
C35_DestructorJoinsWatcher ==
    /\ [](dpc # "none" => ~watch_pool_)
    /\ [](late_pass <= 1)
    /\ [][(dpc # "none" /\ wpc \notin {"lock", "exited"} /\ wpc' = "lock") =>
              ~(watch_pool_' \/ wchecked')]_vars
    /\ (dpc = "join" ~> dpc = "done")
    /\ [](dpc = "done" => (wpc = "exited" /\ NoAdder /\ pool_mutex_ = "none"))
    /\ [][dpc = "done" => sesson_pool_' = sesson_pool_]_vars

\* the destructor has returned after the watcher ran one more pass, which
\* appended a session
C35_Witness ==
    /\ dpc = "done"
    /\ late_pass = 1
    /\ sesson_pool_ # <<>>

\* the wait handler queued for a moved-to session runs in this step, at or
\* after the deadline of the pending operation
StaleHandlerRunsAtDeadline ==
    /\ handler_this = "moved_from"
    /\ m_outcome = "none"
    /\ m_outcome' # "none"
    /\ expires_at_ <= now

\* C36: when an operation on a moved-to session reaches its deadline, the
\* timer handler closes the handle of the moved-to session and marks its
\* deadline as fired
C36_MovedSessionKeepsDeadline ==
    [][ StaleHandlerRunsAtDeadline => (~s_open' /\ deadline_fired_') ]_vars

\* C40: the arena block is allocated exactly while at least one allocator
\* refers to it: it is not freed while one does, and it is freed once none
\* does
C40_ArenaFreedWithLastAllocator ==
    /\ a_state = "allocated" => a_live > 0
    /\ a_state = "freed" => a_live = 0

\* an operation of the session has returned (or thrown) and none is running
NoOperationInProgress == spc = "idle"

\* a timed scope is armed by this step
ScopeArmed == handlerExp' /\ (spc = "idle" /\ spc' = "pending")

CallerAccesses(c) ==
    \/ held[c] = nullptr /\ held'[c] # nullptr
    \/ held[c] # nullptr /\ held'[c] = nullptr /\ sesson_pool_' # sesson_pool_
    \/ cpc[c] # "wait" /\ cpc'[c] = "wait"
    \/ ec'[c] = EmptyError /\ ec[c] # EmptyError
    \/ connected'[c] /\ ~connected[c]

\* the watcher thread is in its eviction and count step or in append_fn
WatcherInside == wpc = "evict" \/ inl = "locked"

\* an adder thread is in append_fn
AdderInside == adderSid # nullptr

\* C38: every read and every modification of the entry sequence is made by
\* the thread that owns pool_mutex_: the watcher and an adder own it while
\* they are inside, a caller's access is made with the mutex taken from the
\* free state and released (or given up in the wait) by the end of its
\* critical section, and the sequence changes in no other step; so no two
\* threads are inside at the same time
C38_PoolAccessUnderMutex ==
    /\ [](WatcherInside => pool_mutex_ = "watcher")
    /\ [](AdderInside => pool_mutex_ = "adder")
    /\ [][\A c \in Callers :
             CallerAccesses(c) => pool_mutex_ = "none" /\ pool_mutex_' = "none"]_vars
    /\ [][sesson_pool_' # sesson_pool_ =>
             \/ \E c \in Callers : CallerAccesses(c)
             \/ pool_mutex_ = "watcher" /\ WatcherInside /\ held' = held
             \/ pool_mutex_ = "adder" /\ AdderInside /\ held' = held]_vars

\* a caller is blocked in its timed lock attempt while the watcher is inside
\* the eviction step, and the other caller holds a session it was delivered
C38_Witness ==
    /\ wpc = "evict"
    /\ pool_mutex_ = "watcher"
    /\ \E c, d \in Callers :
          /\ cpc[c] = "lock"
          /\ cop[c] \in {"get", "try"}
          /\ held[d] # nullptr

\* the sessions the entries of the pool own
Pooled == {sesson_pool_[i].sid : i \in DOMAIN sesson_pool_}

\* get_session or try_get_session delivers a session to caller c in this step
Delivered(c) == held[c] = nullptr /\ held'[c] # nullptr

\* C39: sessions are exclusively owned under every interleaving of the
\* callers, the watcher and its adders: no session is held by two callers, no
\* session is both in the pool and held by a caller, no session is in the
\* pool twice, and a delivered session is the front entry, removed from the
\* pool by the step that delivers it
C39_SessionsExclusivelyOwned ==
    /\ [](\A c, d \in Callers : (c # d /\ held[c] # nullptr) => held[c] # held[d])
    /\ [](\A c \in Callers : held[c] # nullptr => held[c] \notin Pooled)
    /\ [](Cardinality(Pooled) = Len(sesson_pool_))
    /\ [][\A c \in Callers :
             Delivered(c) => /\ sesson_pool_ # <<>>
                             /\ held'[c] = front(sesson_pool_).sid
                             /\ sesson_pool_' = Tail(sesson_pool_)
                             /\ held'[c] \notin {sesson_pool_'[i].sid : i \in DOMAIN sesson_pool_'}]_vars

\* both callers hold a session they were delivered and a third one is pooled
C39_Witness ==
    /\ \A c \in Callers : held[c] # nullptr /\ cop[c] \in {"get", "try"} /\ cpc[c] = "idle"
    /\ sesson_pool_ # <<>>

====
